---- MODULE Spec2Model ----
(***************************************************************************)
(* Verification model of the Emerging Insights query system:               *)
(*   - QueryGenerator (query_generator.py): generate_query, _extract_json, *)
(*     _get_default_query, validate_query;                                 *)
(*   - InsuranceQueryApp.execute_dynamodb_query (app.py);                  *)
(*   - the tagging strategy written in FINAL_VERIFICATION_PROMPT           *)
(*     (prompts.py);                                                       *)
(*   - the four-stage classification of one article: the prompts are       *)
(*     those of prompts.py, the orchestration around them follows          *)
(*     section 4.2 of the specification;                                   *)
(*   - BedrockClient.invoke_model (bedrock_client.py), and two callers     *)
(*     of generate_query sharing one QueryGenerator;                       *)
(*   - DynamoDBClient (dynamo.py): upsert_item, update_record_by_url,      *)
(*     _update_by_scan_method, _update_by_scan_and_replace,                *)
(*     retrieve_untagged_records;                                          *)
(*   - the dashboard, InsuranceQueryApp.run (app.py): one script run per   *)
(*     widget event over the Streamlit session state.                      *)
(*                                                                         *)
(* Text is modelled as a sequence of lexemes (tokens): the JSON            *)
(* punctuation, the double quote, a whitespace token, the triple-backtick  *)
(* fence, number literals, the literal null and plain words.  json.loads   *)
(* and the two regular expressions of _extract_json are computed over      *)
(* these sequences.                                                        *)
(***************************************************************************)
EXTENDS Integers, Sequences, FiniteSets, TLC

VARIABLES
    \* ---- QueryGenerator.generate_query (one invocation) ----
    pc,             \* "idle" | "invoking" | "extracting" | "returned"
    user_query,     \* the argument of generate_query
    response_text,  \* completion text returned by BedrockClient.invoke_model
    extracted,      \* value returned by _extract_json (local query_params)
    result,         \* value generate_query returns to its caller
    raised,         \* TRUE iff generate_query raised to its caller
    gwFailed,       \* TRUE iff invoke_model raised in this invocation
    gwCalls,        \* sequence of the Gateway calls of this invocation
    \* ---- InsuranceQueryApp.execute_dynamodb_query ----
    store,          \* the table: a sequence of rows in scan order
    qp,             \* the query_params argument
    epc,            \* "start" | "loop" | "done"
    pos,            \* rows of the iterated sequence evaluated so far
    lek,            \* TRUE iff the last response carried LastEvaluatedKey
    items,          \* the accumulated items
    pages,          \* the pages fetched so far, in order
    prims,          \* the store primitive used for each request, in order
    execResult,     \* the returned value: [ok |-> TRUE, rows |-> ..] or None
    failure,        \* "none" | "store" (store fault) | "param" (rejected call)
    storeOps,       \* number of store requests issued
    \* ---- final verification / tagging of one article ----
    cpc,            \* "verified" | "tagged"
    Concerns,       \* verified concerns of the article
    EmergingRiskName,
    MiscTopics,
    Tag,
    \* ---- classification pipeline (one batch of articles) ----
    ppc,            \* stage to run next, or "emitted"
    particle,       \* index of the article being classified
    pcalls,         \* stages whose Gateway call was issued for this article
    pprompt,        \* inputs each stage prompt was formatted with, in order
    pout,           \* fields parsed from each stage completion, in order
    ptexts,         \* the completion texts received, in stage order
    prec,           \* the article's record
    pfailed,        \* stage whose Gateway call raised, or ""
    ppropagated,    \* TRUE iff an exception reached the pipeline's caller
    ptags,          \* tags of the records emitted so far in the batch
    \* ---- BedrockClient.invoke_model (one invocation) ----
    ipc,            \* "idle" | "requesting" | "done"
    iargs,          \* the arguments of the invocation
    irequests,      \* requests sent to the model endpoint
    iresp,          \* what came back: NoResponse, a fault, or a body
    iret,           \* the returned completion text, or NoText
    iraised,        \* TRUE iff invoke_model raised
    \* ---- concurrent generate_query calls on one QueryGenerator ----
    frames,         \* per caller: the locals of its generate_query call
    generator,      \* the fields of the shared QueryGenerator object
    lastResponse,   \* the completion the Gateway returned most recently
    \* ---- DynamoDBManager over the articles table ----
    table,          \* the items, by primary key <<URL, DateTime>>
    dbCall,         \* the latest call: method and arguments
    dbRet,          \* its return value
    dbOps,          \* the store operations it issued, in order
    dbInputs,       \* the family of arguments the calls of this run carry
    dbScanOrder,    \* the partitions (URLs) in the order a scan reads them
    dbInputsOk,     \* history: every call so far carried a well-formed NAICS pair
    \* ---- DynamoDBClient.retrieve_untagged_records (one invocation) ----
    rstore,         \* the table: a sequence of rows in scan order
    rpc,            \* "start" | "loop" | "done"
    rpos,           \* rows evaluated so far
    rlek,           \* TRUE iff the last response carried LastEvaluatedKey
    ritems,         \* the accumulated items
    rresult,        \* what the method did: returned a list, or raised
    \* ---- InsuranceQueryApp.run: the session of one dashboard user ----
    query_results,  \* st.session_state.query_results: None or the rows
    query_history,  \* st.session_state.query_history
    last_query,     \* st.session_state.last_query
    expanded_articles, \* st.session_state.expanded_articles
    current_page,   \* st.session_state.current_page, or Unset
    tag_filter,     \* selection of the "Filter by Tag" multiselect
    source_filter,  \* selection of the "Filter by Source" multiselect
    items_per_page, \* value of the "Items per page" selectbox
    uiCalls,        \* calls of the compiler and the store in the latest run
    uiEvent         \* the widget that triggered the latest run

compileVars == <<pc, user_query, response_text, extracted, result, raised, gwFailed, gwCalls>>
execVars == <<store, qp, epc, pos, lek, items, pages, prims, execResult, failure, storeOps>>
tagVars == <<cpc, Concerns, EmergingRiskName, MiscTopics, Tag>>
pipeVars == <<ppc, particle, pcalls, pprompt, pout, ptexts, prec, pfailed, ppropagated, ptags>>
invVars == <<ipc, iargs, irequests, iresp, iret, iraised>>
concVars == <<frames, generator, lastResponse>>
dbVars == <<table, dbCall, dbRet, dbOps, dbInputs, dbScanOrder, dbInputsOk>>
retrVars == <<rstore, rpc, rpos, rlek, ritems, rresult>>
uiVars == <<query_results, query_history, last_query, expanded_articles, current_page,
            tag_filter, source_filter, items_per_page, uiCalls, uiEvent>>
vars == <<compileVars, execVars, tagVars, pipeVars, invVars, concVars, dbVars, retrVars,
          uiVars>>

(***************************************************************************)
(* Bounds of the model.                                                    *)
(***************************************************************************)
MaxChunks == 3
MaxRows == 3
MaxPage == 2
MaxBatch == 2
MaxItems == 2
MaxStored == 2
MaxKindRows == 11
MaxExpanded == 1
MaxPageNo == 3

(***************************************************************************)
(* JSON values.  Every value is a record tagged by t; an object's v is a   *)
(* function from keys (the token sequence between the quotes) to values.   *)
(***************************************************************************)
NullV == [t |-> "null"]
NumV(n) == [t |-> "num", v |-> n]
StrV(s) == [t |-> "str", v |-> s]
ListV(l) == [t |-> "list", v |-> l]
ObjV(f) == [t |-> "obj", v |-> f]
EmptyObj == ObjV([k \in {} |-> NullV])

\* dict.get(key): None when the key is missing
Get(o, key) == IF <<key>> \in DOMAIN o.v THEN o.v[<<key>>] ELSE NullV
Has(o, key) == <<key>> \in DOMAIN o.v

\* Python truthiness of a decoded JSON value
Truthy(x) ==
    CASE x.t = "null" -> FALSE
      [] x.t = "num" -> x.v # 0
      [] x.t = "str" -> Len(x.v) > 0
      [] x.t = "list" -> Len(x.v) > 0
      [] x.t = "obj" -> DOMAIN x.v # {}

(***************************************************************************)
(* Lexemes.                                                                *)
(***************************************************************************)
WS == " "
QUOTE == "\""
\* FENCE stands for a run of three backticks
FENCE == "FENCE"
NumTok == {"0", "5", "7", "200"}
NumVal(tok) ==
    CASE tok = "0" -> 0
      [] tok = "5" -> 5
      [] tok = "7" -> 7
      [] tok = "200" -> 200

RECURSIVE SkipWs(_, _)
SkipWs(s, i) == IF i <= Len(s) /\ s[i] = WS THEN SkipWs(s, i + 1) ELSE i

\* index of the first token equal to tok at or after i; Len(s) + 1 if none
RECURSIVE FindFrom(_, _, _)
FindFrom(s, tok, i) ==
    IF i > Len(s) THEN Len(s) + 1
    ELSE IF s[i] = tok THEN i ELSE FindFrom(s, tok, i + 1)

\* index of the last token equal to tok at or before i; 0 if none
RECURSIVE FindLast(_, _, _)
FindLast(s, tok, i) ==
    IF i < 1 THEN 0
    ELSE IF s[i] = tok THEN i ELSE FindLast(s, tok, i - 1)

(***************************************************************************)
(* json.loads: a recursive-descent decoder.  ParseValue(s, i) decodes one  *)
(* value starting at token i and gives [ok, val, next].                    *)
(***************************************************************************)
Fail == [ok |-> FALSE, val |-> NullV, next |-> 0]
Ok(v, n) == [ok |-> TRUE, val |-> v, next |-> n]

RECURSIVE ParseValue(_, _)
RECURSIVE ParseMembers(_, _, _)
RECURSIVE ParseElems(_, _, _)

ParseString(s, i) ==
    LET j == FindFrom(s, QUOTE, i + 1)
    IN  IF j > Len(s) THEN Fail ELSE Ok(StrV(SubSeq(s, i + 1, j - 1)), j + 1)

ParseValue(s, i0) ==
    LET i == SkipWs(s, i0)
    IN  IF i > Len(s) THEN Fail
        ELSE IF s[i] = "{" THEN
            LET j == SkipWs(s, i + 1)
            IN  IF j <= Len(s) /\ s[j] = "}" THEN Ok(EmptyObj, j + 1)
                ELSE ParseMembers(s, j, [k \in {} |-> NullV])
        ELSE IF s[i] = "[" THEN
            LET j == SkipWs(s, i + 1)
            IN  IF j <= Len(s) /\ s[j] = "]" THEN Ok(ListV(<<>>), j + 1)
                ELSE ParseElems(s, j, <<>>)
        ELSE IF s[i] = QUOTE THEN ParseString(s, i)
        ELSE IF s[i] \in NumTok THEN Ok(NumV(NumVal(s[i])), i + 1)
        ELSE IF s[i] = "null" THEN Ok(NullV, i + 1)
        ELSE Fail

\* members of an object after "{": "key" : value ( , "key" : value )* }
\* a repeated key keeps its last value
ParseMembers(s, i0, acc) ==
    LET i == SkipWs(s, i0)
    IN  IF i > Len(s) \/ s[i] # QUOTE THEN Fail
        ELSE LET key == ParseString(s, i)
             IN  IF ~key.ok THEN Fail
                 ELSE LET c == SkipWs(s, key.next)
                      IN  IF c > Len(s) \/ s[c] # ":" THEN Fail
                          ELSE LET val == ParseValue(s, c + 1)
                               IN  IF ~val.ok THEN Fail
                                   ELSE LET e == SkipWs(s, val.next)
                                            acc2 == [k \in DOMAIN acc \cup {key.val.v} |->
                                                        IF k = key.val.v THEN val.val ELSE acc[k]]
                                        IN  IF e > Len(s) THEN Fail
                                            ELSE IF s[e] = "}" THEN Ok(ObjV(acc2), e + 1)
                                            ELSE IF s[e] = "," THEN ParseMembers(s, e + 1, acc2)
                                            ELSE Fail

\* elements of an array after "[": value ( , value )* ]
ParseElems(s, i0, acc) ==
    LET val == ParseValue(s, i0)
    IN  IF ~val.ok THEN Fail
        ELSE LET e == SkipWs(s, val.next)
                 acc2 == Append(acc, val.val)
             IN  IF e > Len(s) THEN Fail
                 ELSE IF s[e] = "]" THEN Ok(ListV(acc2), e + 1)
                 ELSE IF s[e] = "," THEN ParseElems(s, e + 1, acc2)
                 ELSE Fail

\* json.loads(s): one value, surrounded by optional whitespace, nothing else
JsonLoads(s) ==
    LET r == ParseValue(s, 1)
    IN  IF r.ok /\ SkipWs(s, r.next) > Len(s) THEN [ok |-> TRUE, val |-> r.val]
        ELSE [ok |-> FALSE, val |-> NullV]


(***************************************************************************)
(* QueryGenerator._extract_json: the two regular-expression searches.      *)
(***************************************************************************)
NoMatch == [found |-> FALSE, group |-> <<>>]

\* smallest e >= i with s[e] = "}" followed by optional whitespace and a fence
RECURSIVE FirstClose(_, _)
FirstClose(s, i) ==
    IF i > Len(s) THEN 0
    ELSE IF s[i] = "}" /\ (LET f == SkipWs(s, i + 1) IN f <= Len(s) /\ s[f] = FENCE) THEN i
    ELSE FirstClose(s, i + 1)

\* the fenced pattern anchored at the fence at p: fence, optional json tag,
\* whitespace, then group 1 = the shortest span from "{" to a "}" that is
\* followed by whitespace and a fence
FenceAt(s, p) ==
    LET q == IF p + 1 <= Len(s) /\ s[p + 1] = "json" THEN p + 2 ELSE p + 1
        r == SkipWs(s, q)
    IN  IF r <= Len(s) /\ s[r] = "{" /\ FirstClose(s, r + 1) > 0
        THEN [found |-> TRUE, group |-> SubSeq(s, r, FirstClose(s, r + 1))]
        ELSE NoMatch

\* re.search of the fenced pattern: the leftmost position where it matches
RECURSIVE FencedSearch(_, _)
FencedSearch(s, p) ==
    IF p > Len(s) THEN NoMatch
    ELSE IF s[p] = FENCE /\ FenceAt(s, p).found THEN FenceAt(s, p)
    ELSE FencedSearch(s, p + 1)

\* re.search(r'\{.*\}', DOTALL): from the first "{" to the last "}"
GreedySearch(s) ==
    LET a == FindFrom(s, "{", 1)
        b == FindLast(s, "}", Len(s))
    IN  IF a <= Len(s) /\ b > a THEN [found |-> TRUE, group |-> SubSeq(s, a, b)]
        ELSE NoMatch

\* _extract_json: the value it returns for completion text s.  A match whose
\* contents do not decode raises inside the inner try and gives {}.
ExtractJson(s) ==
    LET direct == JsonLoads(s)
        fenced == FencedSearch(s, 1)
        greedy == GreedySearch(s)
    IN  IF direct.ok THEN direct.val
        ELSE IF fenced.found
             THEN (IF JsonLoads(fenced.group).ok THEN JsonLoads(fenced.group).val ELSE EmptyObj)
        ELSE IF greedy.found
             THEN (IF JsonLoads(greedy.group).ok THEN JsonLoads(greedy.group).val ELSE EmptyObj)
        ELSE EmptyObj

(***************************************************************************)
(* QueryGenerator.generate_query                                           *)
(***************************************************************************)
DefaultLimit == 50
MaxTokens == 2000
Temperature == 0
DefaultExplanation == "Showing all records (default query)"

\* _get_default_query
GetDefaultQuery ==
    ObjV([k \in {<<"query_type">>, <<"partition_key">>, <<"filter_expression">>,
                 <<"expression_attribute_names">>, <<"expression_attribute_values">>,
                 <<"projection_attributes">>, <<"limit">>, <<"explanation">>} |->
            CASE k = <<"query_type">> -> StrV(<<"scan">>)
              [] k = <<"limit">> -> NumV(DefaultLimit)
              [] k = <<"explanation">> -> StrV(<<DefaultExplanation>>)
              [] OTHER -> NullV])

InvokeArgsDefaultBudget == [max_tokens |-> 5000, temperature |-> Temperature]

\* the keyword arguments of the one invoke_model call
InvokeArgs == [max_tokens |-> MaxTokens, temperature |-> Temperature]

ExceptHandlerReraise == [raised |-> TRUE, value |-> NullV]

\* the except clause of generate_query: log, return the default query
ExceptHandler == [raised |-> FALSE, value |-> GetDefaultQuery]

AfterExtractNoFallback(q) ==
    IF ~Truthy(q) THEN [raised |-> TRUE, value |-> NullV]
    ELSE IF q.t # "obj" THEN ExceptHandler
    ELSE [raised |-> FALSE, value |-> q]

AfterExtractNoLogLine(q) ==
    IF ~Truthy(q) THEN [raised |-> FALSE, value |-> GetDefaultQuery]
    ELSE [raised |-> FALSE, value |-> q]

\* generate_query after _extract_json returned q: the falsy check, the
\* q.get('explanation') of the log line (AttributeError unless q is a dict,
\* caught by the except clause), return q
AfterExtract(q) ==
    IF ~Truthy(q) THEN [raised |-> FALSE, value |-> GetDefaultQuery]
    ELSE IF q.t # "obj" THEN ExceptHandler
    ELSE [raised |-> FALSE, value |-> q]

\* validate_query: required fields, query_type, partition_key of a key-query
ValidateQuery(q) ==
    /\ Has(q, "query_type") /\ Has(q, "limit")
    /\ Get(q, "query_type") \in {StrV(<<"scan">>), StrV(<<"query">>)}
    /\ (Get(q, "query_type") = StrV(<<"query">>) => Truthy(Get(q, "partition_key")))

(***************************************************************************)
(* Completion texts: concatenations of at most MaxChunks chunks.           *)
(***************************************************************************)
Str(w) == <<QUOTE, w, QUOTE>>
Member(k, val) == Str(k) \o <<":">> \o val

ObjScan == <<"{">> \o Member("query_type", Str("scan")) \o <<",">>
              \o Member("limit", <<"7">>) \o <<"}">>
ObjBad == <<"{">> \o Member("query_type", Str("query")) \o <<",">>
              \o Member("filter_expression", <<QUOTE, "#tag", "=", ":tag_val", QUOTE>>) \o <<",">>
              \o Member("projection_attributes", <<"[">> \o Str("Title") \o <<"]">>) \o <<"}">>
ObjFenceInString == <<"{">> \o Member("explanation", <<QUOTE, FENCE, "{", "x", "}", FENCE, QUOTE>>)
              \o <<"}">>
Truncated == <<"{">> \o Str("limit") \o <<":">>

Chunks ==
    { <<"x">>, <<FENCE>>, <<FENCE, "json", WS>>, <<WS>>,
      ObjScan, ObjBad, ObjFenceInString, Truncated,
      <<"{", "}">>, <<"[", "5", "]">>, <<"null">>, <<"5">>, Str("x") }

RECURSIVE TextsOf(_)
TextsOf(n) ==
    IF n = 0 THEN {<<>>}
    ELSE TextsOf(n - 1) \cup {t \o c : t \in TextsOf(n - 1), c \in Chunks}

Texts == TextsOf(MaxChunks)
UserTexts == {<<>>, <<"x">>}


(***************************************************************************)
(* InsuranceQueryApp.execute_dynamodb_query                                *)
(***************************************************************************)
LoopDefaultLimit == 100

\* the None the method returns from its except clause
None == [ok |-> FALSE, rows |-> <<>>]

Min(a, b) == IF a < b THEN a ELSE b

RECURSIVE Concat(_)
Concat(ps) == IF ps = <<>> THEN <<>> ELSE Head(ps) \o Concat(Tail(ps))

\* the rows of one partition: url is the key value of the condition
RECURSIVE Select(_, _)
Select(rows, url) ==
    IF rows = <<>> THEN <<>>
    ELSE IF StrV(<<Head(rows).URL>>) = url THEN <<Head(rows)>> \o Select(Tail(rows), url)
    ELSE Select(Tail(rows), url)

RECURSIVE Matching(_)
Matching(rows) ==
    IF rows = <<>> THEN <<>>
    ELSE IF Head(rows).match THEN <<Head(rows)>> \o Matching(Tail(rows))
    ELSE Matching(Tail(rows))

\* the branch taken at the first request: table.query or table.scan
Primitive(q) ==
    IF Get(q, "query_type") = StrV(<<"query">>) /\ Truthy(Get(q, "partition_key"))
    THEN "query" ELSE "scan"

\* the keys of scan_kwargs after the ifs of the method
KwKeys(q) ==
    (IF Truthy(Get(q, "filter_expression")) THEN {"FilterExpression"} ELSE {})
    \cup (IF Truthy(Get(q, "expression_attribute_names")) /\ Truthy(Get(q, "filter_expression"))
          THEN {"ExpressionAttributeNames"} ELSE {})
    \cup (IF Truthy(Get(q, "expression_attribute_values")) /\ Truthy(Get(q, "filter_expression"))
          THEN {"ExpressionAttributeValues"} ELSE {})
    \cup (IF Truthy(Get(q, "limit")) THEN {"Limit"} ELSE {})
    \cup (IF Primitive(q) = "query" THEN {"KeyConditionExpression"} ELSE {})

\* scan_kwargs as passed to the first request (and, with ExclusiveStartKey
\* added, to every later one)
ScanKwargs(q) ==
    [k \in KwKeys(q) |->
        CASE k = "FilterExpression" -> Get(q, "filter_expression")
          [] k = "ExpressionAttributeNames" -> Get(q, "expression_attribute_names")
          [] k = "ExpressionAttributeValues" -> Get(q, "expression_attribute_values")
          [] k = "Limit" -> Get(q, "limit")
          [] k = "KeyConditionExpression" -> Get(Get(q, "partition_key"), "value")]

\* building scan_kwargs raises: query_params["query_type"] of a missing key,
\* .items() of a value map that is no dict, pk["name"] / pk["value"]
BuildRaises(q) ==
    \/ ~Has(q, "query_type")
    \/ /\ Truthy(Get(q, "expression_attribute_values")) /\ Truthy(Get(q, "filter_expression"))
       /\ Get(q, "expression_attribute_values").t # "obj"
    \/ /\ Get(q, "query_type") = StrV(<<"query">>) /\ Truthy(Get(q, "partition_key"))
       /\ \/ Get(q, "partition_key").t # "obj"
          \/ ~Has(Get(q, "partition_key"), "name")
          \/ ~Has(Get(q, "partition_key"), "value")

\* query_params.get("limit", 100) of the loop condition
LoopLimit(q) == IF Has(q, "limit") THEN Get(q, "limit") ELSE NumV(LoopDefaultLimit)

\* the while condition; len(items) < limit raises unless limit is a number
LoopCondRaises(q, more) == more /\ LoopLimit(q).t # "num"
LoopCond(q, more, n) == more /\ n < LoopLimit(q).v

\* The table.  A request iterates the rows of the table (scan) or of one
\* partition (query) from position p, evaluates at most Limit rows and at
\* most MaxPage rows, and returns those that pass the filter.
IterRows(prim, kw) ==
    IF prim = "query" THEN Select(store, kw["KeyConditionExpression"]) ELSE store

PageCap(kw) == IF "Limit" \in DOMAIN kw THEN Min(kw["Limit"].v, MaxPage) ELSE MaxPage

PageSizes(prim, kw, p) ==
    LET left == Len(IterRows(prim, kw)) - p
    IN  IF left = 0 THEN {0} ELSE 1 .. Min(PageCap(kw), left)

\* whether the response may carry LastEvaluatedKey after n more rows
MoreChoices(prim, kw, p, n) ==
    IF p + n < Len(IterRows(prim, kw)) THEN {TRUE}
    ELSE IF n > 0 /\ n = PageCap(kw) THEN {TRUE, FALSE}
    ELSE {FALSE}

PageItems(prim, kw, p, n) ==
    LET evaluated == SubSeq(IterRows(prim, kw), p + 1, p + n)
    IN  IF "FilterExpression" \in DOMAIN kw THEN Matching(evaluated) ELSE evaluated

\* table.scan validates its keyword arguments against the Scan operation,
\* which has no KeyConditionExpression
ScanRejects(kw) == "KeyConditionExpression" \in DOMAIN kw

\* the primitive the loop body calls for a continuation page
ContinuationPrimitive(q) == "scan"

\* what the method does once a response is in hand: evaluate the while
\* condition, then loop, return the items or (TypeError) return None
AfterPage(newItems, more) ==
    IF LoopCondRaises(qp, more)
    THEN /\ epc' = "done" /\ execResult' = None /\ failure' = "type"
    ELSE IF LoopCond(qp, more, Len(newItems))
    THEN /\ epc' = "loop" /\ execResult' = execResult /\ failure' = failure
    ELSE /\ epc' = "done" /\ execResult' = [ok |-> TRUE, rows |-> newItems]
         /\ failure' = failure

\* building scan_kwargs raises: the except clause returns None
ExecBuildFails ==
    /\ epc = "start"
    /\ BuildRaises(qp)
    /\ epc' = "done" /\ execResult' = None /\ failure' = "build"
    /\ UNCHANGED <<store, qp, pos, lek, items, pages, prims, storeOps, compileVars, tagVars, pipeVars, invVars, concVars, dbVars, retrVars, uiVars>>

\* the first request returns a page
ExecFirstPage ==
    /\ epc = "start"
    /\ ~BuildRaises(qp)
    /\ LET prim == Primitive(qp)
           kw == ScanKwargs(qp)
       IN  \E n \in PageSizes(prim, kw, 0) : \E more \in MoreChoices(prim, kw, 0, n) :
             /\ pos' = n
             /\ lek' = more
             /\ items' = PageItems(prim, kw, 0, n)
             /\ pages' = <<PageItems(prim, kw, 0, n)>>
             /\ prims' = <<prim>>
             /\ storeOps' = storeOps + 1
             /\ AfterPage(PageItems(prim, kw, 0, n), more)
    /\ UNCHANGED <<store, qp, compileVars, tagVars, pipeVars, invVars, concVars, dbVars, retrVars, uiVars>>

\* the first request fails in the store: the except clause returns None
ExecFirstPageFault ==
    /\ epc = "start"
    /\ ~BuildRaises(qp)
    /\ prims' = <<Primitive(qp)>>
    /\ storeOps' = storeOps + 1
    /\ epc' = "done" /\ execResult' = None /\ failure' = "store"
    /\ UNCHANGED <<store, qp, pos, lek, items, pages, compileVars, tagVars, pipeVars, invVars, concVars, dbVars, retrVars, uiVars>>

\* one iteration of the while loop: the continuation request returns a page
ExecNextPage ==
    /\ epc = "loop"
    /\ ~(ContinuationPrimitive(qp) = "scan" /\ ScanRejects(ScanKwargs(qp)))
    /\ LET prim == ContinuationPrimitive(qp)
           kw == ScanKwargs(qp)
       IN  \E n \in PageSizes(prim, kw, pos) : \E more \in MoreChoices(prim, kw, pos, n) :
             /\ pos' = pos + n
             /\ lek' = more
             /\ items' = items \o PageItems(prim, kw, pos, n)
             /\ pages' = Append(pages, PageItems(prim, kw, pos, n))
             /\ prims' = Append(prims, prim)
             /\ storeOps' = storeOps + 1
             /\ AfterPage(items \o PageItems(prim, kw, pos, n), more)
    /\ UNCHANGED <<store, qp, compileVars, tagVars, pipeVars, invVars, concVars, dbVars, retrVars, uiVars>>

\* the continuation request is rejected before it is sent: table.scan was
\* given the KeyConditionExpression of the key-query
ExecNextPageRejected ==
    /\ epc = "loop"
    /\ ContinuationPrimitive(qp) = "scan" /\ ScanRejects(ScanKwargs(qp))
    /\ prims' = Append(prims, ContinuationPrimitive(qp))
    /\ epc' = "done" /\ execResult' = None /\ failure' = "param"
    /\ UNCHANGED <<store, qp, pos, lek, items, pages, storeOps, compileVars, tagVars, pipeVars, invVars, concVars, dbVars, retrVars, uiVars>>

\* the continuation request fails in the store
ExecNextPageFault ==
    /\ epc = "loop"
    /\ ~(ContinuationPrimitive(qp) = "scan" /\ ScanRejects(ScanKwargs(qp)))
    /\ prims' = Append(prims, ContinuationPrimitive(qp))
    /\ storeOps' = storeOps + 1
    /\ epc' = "done" /\ execResult' = None /\ failure' = "store"
    /\ UNCHANGED <<store, qp, pos, lek, items, pages, compileVars, tagVars, pipeVars, invVars, concVars, dbVars, retrVars, uiVars>>

(***************************************************************************)
(* Inert values of the parts a specification does not exercise.            *)
(***************************************************************************)
CompileIdle ==
    /\ pc = "idle" /\ user_query = <<>> /\ response_text = <<>>
    /\ extracted = NullV /\ result = NullV
    /\ raised = FALSE /\ gwFailed = FALSE /\ gwCalls = <<>>

ExecIdle ==
    /\ store = <<>> /\ qp = NullV /\ epc = "done" /\ pos = 0 /\ lek = FALSE
    /\ items = <<>> /\ pages = <<>> /\ prims = <<>>
    /\ execResult = None /\ failure = "none" /\ storeOps = 0

TagIdle ==
    /\ cpc = "tagged" /\ Concerns = {} /\ EmergingRiskName = {} /\ MiscTopics = {}
    /\ Tag = "Untagged"

PipeIdle ==
    /\ ppc = "emitted" /\ particle = 0 /\ pcalls = <<>> /\ pprompt = <<>>
    /\ pout = <<>> /\ ptexts = <<>> /\ prec = <<>> /\ pfailed = "" /\ ppropagated = FALSE
    /\ ptags = <<>>

InvokeIdle ==
    /\ ipc = "idle" /\ iargs = <<>> /\ irequests = 0 /\ iresp = <<>> /\ iret = <<>>
    /\ iraised = FALSE

ConcIdle ==
    /\ frames = <<>> /\ generator = <<>> /\ lastResponse = <<>>

DbIdle ==
    /\ table = <<>> /\ dbCall = <<>> /\ dbRet = "" /\ dbOps = <<>>
    /\ dbInputs = "" /\ dbScanOrder = <<>> /\ dbInputsOk = TRUE

RetrIdle ==
    /\ rstore = <<>> /\ rpc = "done" /\ rpos = 0 /\ rlek = FALSE /\ ritems = <<>>
    /\ rresult = <<>>

UiIdle ==
    /\ query_results = <<>> /\ query_history = <<>> /\ last_query = <<>>
    /\ expanded_articles = {} /\ current_page = 0 /\ tag_filter = {}
    /\ source_filter = {} /\ items_per_page = 0 /\ uiCalls = <<>> /\ uiEvent = ""

(***************************************************************************)
(* generate_query as a state machine: the call, the one Gateway call       *)
(* (which returns a completion or raises), the extraction and return.      *)
(***************************************************************************)
GenerateQueryCall(u) ==
    /\ pc \in {"idle", "returned"}
    /\ pc' = "invoking"
    /\ user_query' = u
    /\ response_text' = <<>>
    /\ extracted' = NullV
    /\ result' = NullV
    /\ raised' = FALSE
    /\ gwFailed' = FALSE
    /\ gwCalls' = <<>>
    /\ UNCHANGED <<execVars, tagVars, pipeVars, invVars, concVars, dbVars, retrVars, uiVars>>

\* invoke_model returns the completion text
InvokeModelReturns ==
    /\ pc = "invoking"
    /\ gwCalls' = Append(gwCalls, InvokeArgs)
    /\ \E text \in Texts : response_text' = text
    /\ pc' = "extracting"
    /\ UNCHANGED <<user_query, extracted, result, raised, gwFailed, execVars, tagVars, pipeVars, invVars, concVars, dbVars, retrVars, uiVars>>

\* invoke_model raises (transport, authentication, response decoding); the
\* except clause of generate_query handles it
InvokeModelRaises ==
    /\ pc = "invoking"
    /\ gwCalls' = Append(gwCalls, InvokeArgs)
    /\ gwFailed' = TRUE
    /\ result' = ExceptHandler.value
    /\ raised' = ExceptHandler.raised
    /\ pc' = "returned"
    /\ UNCHANGED <<user_query, response_text, extracted, execVars, tagVars, pipeVars, invVars, concVars, dbVars, retrVars, uiVars>>

\* _extract_json, the falsy check, the log line, return
ExtractAndReturn ==
    /\ pc = "extracting"
    /\ extracted' = ExtractJson(response_text)
    /\ result' = AfterExtract(ExtractJson(response_text)).value
    /\ raised' = AfterExtract(ExtractJson(response_text)).raised
    /\ pc' = "returned"
    /\ UNCHANGED <<user_query, response_text, gwFailed, gwCalls, execVars, tagVars, pipeVars, invVars, concVars, dbVars, retrVars, uiVars>>

Init == CompileIdle /\ ExecIdle /\ TagIdle /\ PipeIdle /\ InvokeIdle /\ ConcIdle /\ DbIdle /\ RetrIdle /\ UiIdle

Next ==
    \/ \E u \in UserTexts : GenerateQueryCall(u)
    \/ InvokeModelReturns
    \/ InvokeModelRaises
    \/ ExtractAndReturn

Spec == Init /\ [][Next]_vars


(***************************************************************************)
(* Executions: a table of at most MaxRows rows and one query-description.  *)
(* A row carries its partition key and whether it passes the filter of the *)
(* request.                                                                *)
(***************************************************************************)
Urls == {"u1", "u2"}

RowsOf(n) == [1..n -> [URL : Urls, match : BOOLEAN]]

Stores == UNION {RowsOf(n) : n \in 0..MaxRows}

\* a query-description with every key of the output format
QueryDescription(qtype, pk, filter, limit) ==
    ObjV([k \in {<<"query_type">>, <<"partition_key">>, <<"filter_expression">>,
                 <<"expression_attribute_names">>, <<"expression_attribute_values">>,
                 <<"projection_attributes">>, <<"limit">>, <<"explanation">>} |->
            CASE k = <<"query_type">> -> StrV(<<qtype>>)
              [] k = <<"partition_key">> -> pk
              [] k = <<"filter_expression">> -> filter
              [] k = <<"expression_attribute_names">> ->
                    IF filter = NullV THEN NullV
                    ELSE ObjV([a \in {<<"#tag">>} |-> StrV(<<"Tag">>)])
              [] k = <<"expression_attribute_values">> ->
                    IF filter = NullV THEN NullV
                    ELSE ObjV([a \in {<<":tag_val">>} |-> StrV(<<"Current">>)])
              [] k = <<"limit">> -> limit
              [] k = <<"explanation">> -> StrV(<<"x">>)
              [] OTHER -> NullV])

PartitionKey(url) ==
    ObjV([k \in {<<"name">>, <<"value">>} |->
            IF k = <<"name">> THEN StrV(<<"URL">>) ELSE StrV(<<url>>)])

TagFilter == StrV(<<"#tag", "=", ":tag_val">>)

QueryDescriptions ==
    { GetDefaultQuery,
      JsonLoads(ObjScan).val,
      JsonLoads(ObjBad).val,
      JsonLoads(ObjFenceInString).val,
      QueryDescription("scan", NullV, NullV, NumV(1)),
      QueryDescription("scan", NullV, TagFilter, NumV(2)),
      QueryDescription("query", PartitionKey("u1"), NullV, NumV(1)),
      QueryDescription("query", PartitionKey("u1"), TagFilter, NumV(2)) }

ExecInit ==
    /\ CompileIdle /\ TagIdle /\ PipeIdle /\ InvokeIdle /\ ConcIdle /\ DbIdle /\ RetrIdle /\ UiIdle
    /\ store \in Stores
    /\ qp \in QueryDescriptions
    /\ epc = "start" /\ pos = 0 /\ lek = FALSE
    /\ items = <<>> /\ pages = <<>> /\ prims = <<>>
    /\ execResult = None /\ failure = "none" /\ storeOps = 0

ExecNext ==
    \/ ExecBuildFails
    \/ ExecFirstPage
    \/ ExecFirstPageFault
    \/ ExecNextPage
    \/ ExecNextPageRejected
    \/ ExecNextPageFault

ExecSpec == ExecInit /\ [][ExecNext]_vars


(***************************************************************************)
(* Final verification: the tagging strategy of FINAL_VERIFICATION_PROMPT   *)
(* applied to the verified classification of one article.                  *)
(***************************************************************************)
concerns_events == {"lawsuits", "injuries"}
emerging_risks == {"PFAS", "Ransomware"}
misc_topics == {"home ownership", "personal auto"}

\* the <tagging_strategy> block: c, r, m say whether Concerns, Emerging
\* Risks and Misc Topics are present
TaggingStrategyMiscIgnored(c, r, m) ==
    IF c THEN (IF r THEN "Current" ELSE "Potential New Trend") ELSE "Untagged"

TaggingStrategyAllCurrent(c, r, m) ==
    IF c THEN (IF r /\ m THEN "Current" ELSE "Potential New Trend") ELSE "Untagged"

TaggingStrategy(c, r, m) ==
    IF c
    THEN IF r
         THEN (IF m THEN "Potential New Trend" ELSE "Current")
         ELSE "Potential New Trend"
    ELSE "Untagged"

\* the final stage assigns the tag of the verified classification
AssignTag ==
    /\ cpc = "verified"
    /\ Tag' = TaggingStrategy(Concerns # {}, EmergingRiskName # {}, MiscTopics # {})
    /\ cpc' = "tagged"
    /\ UNCHANGED <<Concerns, EmergingRiskName, MiscTopics, compileVars, execVars, pipeVars, invVars, concVars, dbVars, retrVars, uiVars>>

\* the next article's verified classification arrives
NextArticle ==
    /\ cpc = "tagged"
    /\ Concerns' \in SUBSET concerns_events
    /\ EmergingRiskName' \in SUBSET emerging_risks
    /\ MiscTopics' \in SUBSET misc_topics
    /\ Tag' = ""
    /\ cpc' = "verified"
    /\ UNCHANGED <<compileVars, execVars, pipeVars, invVars, concVars, dbVars, retrVars, uiVars>>

TagInit ==
    /\ CompileIdle /\ ExecIdle /\ PipeIdle /\ InvokeIdle /\ ConcIdle /\ DbIdle /\ RetrIdle /\ UiIdle
    /\ cpc = "verified"
    /\ Concerns \in SUBSET concerns_events
    /\ EmergingRiskName \in SUBSET emerging_risks
    /\ MiscTopics \in SUBSET misc_topics
    /\ Tag = ""

TagNext == AssignTag \/ NextArticle

TagSpec == TagInit /\ [][TagNext]_vars


(***************************************************************************)
(* Claims about the Query Compiler (specification Spec).                   *)
(***************************************************************************)
SchemaDefaultLimit == 200

\* the ordered strategies as the specification words them: the first of
\* direct parse, fenced block, greedy span that parses; {} when none does
OrderedExtract(s) ==
    LET direct == JsonLoads(s)
        fenced == FencedSearch(s, 1)
        greedy == GreedySearch(s)
    IN  IF direct.ok THEN direct.val
        ELSE IF fenced.found /\ JsonLoads(fenced.group).ok THEN JsonLoads(fenced.group).val
        ELSE IF greedy.found /\ JsonLoads(greedy.group).ok THEN JsonLoads(greedy.group).val
        ELSE EmptyObj

\* no strategy yields JSON for completion text s
NothingParses(s) ==
    /\ ~JsonLoads(s).ok
    /\ ~(FencedSearch(s, 1).found /\ JsonLoads(FencedSearch(s, 1).group).ok)
    /\ ~(GreedySearch(s).found /\ JsonLoads(GreedySearch(s).group).ok)

Completed == pc = "returned" /\ ~gwFailed

\* C1: for every completion received, _extract_json returns what the first
\* parsing strategy in the order direct, fenced block, greedy span yields,
\* and the empty result only when all three fail.
C1_OrderedStrategies ==
    Completed => extracted = OrderedExtract(response_text)

C3_ProjectionAlwaysNull ==
    (pc = "returned" /\ ~raised /\ result.t = "obj")
        => Get(result, "projection_attributes") = NullV

\* C4: every returned object has a limit, and the limit is 200 whenever the
\* completion received did not supply one.
C4_LimitPresentDefault200 ==
    (Completed /\ ~raised /\ result.t = "obj") =>
        /\ Has(result, "limit")
        /\ (~(extracted.t = "obj" /\ Has(extracted, "limit"))
                => Get(result, "limit") = NumV(SchemaDefaultLimit))

\* a filter expression that uses an alias (#name) or a binding (:name)
\* comes with the corresponding map
UsesAlias(f) == f.t = "str" /\ \E i \in 1..Len(f.v) : f.v[i] \in {"#tag"}
UsesBinding(f) == f.t = "str" /\ \E i \in 1..Len(f.v) : f.v[i] \in {":tag_val"}
FilterMapsPresent(q) ==
    /\ UsesAlias(Get(q, "filter_expression")) => Get(q, "expression_attribute_names") # NullV
    /\ UsesBinding(Get(q, "filter_expression")) => Get(q, "expression_attribute_values") # NullV

\* C5: every returned object passes validate_query and carries the maps its
\* filter expression uses.
C5_ResultPassesValidation ==
    (pc = "returned" /\ ~raised /\ result.t = "obj")
        => (ValidateQuery(result) /\ FilterMapsPresent(result))

\* C6: when a completion is received and no extraction strategy yields JSON,
\* generate_query returns (does not raise) the default query-description:
\* a scan with no partition key and no filter, explained as "Showing all
\* records (default query)"; executing it is a table scan without filter.
C6_ParseFailureYieldsDefault ==
    (Completed /\ NothingParses(response_text)) =>
        /\ ~raised
        /\ result.t = "obj"
        /\ Get(result, "query_type") = StrV(<<"scan">>)
        /\ Get(result, "partition_key") = NullV
        /\ Get(result, "filter_expression") = NullV
        /\ Get(result, "explanation") = StrV(<<"Showing all records (default query)">>)
        /\ ~BuildRaises(result)
        /\ Primitive(result) = "scan"
        /\ "FilterExpression" \notin DOMAIN ScanKwargs(result)
        /\ "KeyConditionExpression" \notin DOMAIN ScanKwargs(result)

C6_Witness ==
    /\ Completed /\ NothingParses(response_text)
    /\ response_text = Truncated
    /\ result = GetDefaultQuery

\* C7: for every user text and every completion, generate_query returns an
\* object and does not raise; once the completion is in hand, the one step
\* left returns an object.
C7_AlwaysReturnsObject ==
    /\ pc = "returned" => (~raised /\ result.t = "obj")
    /\ pc = "extracting" =>
          /\ ~AfterExtract(ExtractJson(response_text)).raised
          /\ AfterExtract(ExtractJson(response_text)).value.t = "obj"

C7_Witness ==
    /\ Completed /\ user_query = <<>>
    /\ extracted.t = "list" /\ Truthy(extracted)
    /\ ~raised /\ result.t = "obj"

\* C8: one invocation of generate_query makes exactly one Gateway call, with
\* temperature 0 and max_tokens 2000, also after a parse failure, and no
\* store request.
C8_OneGatewayCallNoStore ==
    /\ pc \in {"idle", "invoking"} => Len(gwCalls) = 0
    /\ pc \in {"extracting", "returned"} =>
          /\ Len(gwCalls) = 1
          /\ gwCalls[1] = [max_tokens |-> 2000, temperature |-> 0]
    /\ storeOps = 0 /\ prims = <<>>

C8_Witness ==
    /\ Completed /\ NothingParses(response_text) /\ response_text = <<"x">>
    /\ Len(gwCalls) = 1

(***************************************************************************)
(* Claims about execute_dynamodb_query (specification ExecSpec).           *)
(***************************************************************************)
\* C9: unless the store itself fails or the query-description is malformed,
\* the execution ends with the concatenation of all fetched pages, having
\* stopped exactly when the last page carried no continuation token or at
\* least limit rows were collected.
C9_ReturnsConcatenatedPages ==
    (epc = "done" /\ failure \notin {"store", "build", "type"}) =>
        /\ execResult.ok
        /\ execResult.rows = Concat(pages)
        /\ (~lek \/ Len(execResult.rows) >= LoopLimit(qp).v)

\* C21: for a query-description of type 'query' with a partition key, every
\* request, the first and each continuation, is made with the key-query
\* primitive, and an execution of more than one request that the store does
\* not fail returns its rows.
C21_KeyQueryPagesUseQuery ==
    (~BuildRaises(qp) /\ Primitive(qp) = "query") =>
        /\ \A i \in 1..Len(prims) : prims[i] = "query"
        /\ (epc = "done" /\ Len(prims) > 1 /\ failure # "store") => execResult.ok

\* C22: the list execute_dynamodb_query returns holds at most
\* query_params['limit'] rows.
C22_AtMostLimitRows ==
    (epc = "done" /\ execResult.ok /\ Has(qp, "limit") /\ Get(qp, "limit").t = "num") =>
        Len(execResult.rows) <= Get(qp, "limit").v

(***************************************************************************)
(* Claims about the tag (specification TagSpec).                           *)
(***************************************************************************)
\* C10: the tag assigned is the decision tree over the three booleans:
\* no concerns -> Untagged; concerns, no risks -> Potential New Trend;
\* concerns and risks, no misc -> Current; all three -> Potential New Trend.
C10_TagDecisionTree ==
    cpc = "tagged" =>
        LET c == Concerns # {}
            r == EmergingRiskName # {}
            m == MiscTopics # {}
        IN  /\ (~c) => Tag = "Untagged"
            /\ (c /\ ~r) => Tag = "Potential New Trend"
            /\ (c /\ r /\ ~m) => Tag = "Current"
            /\ (c /\ r /\ m) => Tag = "Potential New Trend"

C10_Witness ==
    /\ cpc = "tagged"
    /\ Concerns # {} /\ EmergingRiskName # {} /\ MiscTopics # {}
    /\ Tag = "Potential New Trend"


\* C11 (as claimed): when Concerns, EmergingRiskName and MiscTopics are all
\* non-empty, the tag assigned is Current.
C11_AllPresentIsCurrent ==
    (cpc = "tagged" /\ Concerns # {} /\ EmergingRiskName # {} /\ MiscTopics # {})
        => Tag = "Current"

\* C11 (amended): when Concerns, EmergingRiskName and MiscTopics are all
\* non-empty, the tag assigned is Potential New Trend; Current is assigned
\* exactly when Concerns and EmergingRiskName are non-empty and MiscTopics
\* is empty.
C11_AllPresentIsPotentialNewTrend ==
    cpc = "tagged" =>
        /\ (Concerns # {} /\ EmergingRiskName # {} /\ MiscTopics # {})
                => Tag = "Potential New Trend"
        /\ Tag = "Current"
                <=> (Concerns # {} /\ EmergingRiskName # {} /\ MiscTopics = {})

C11_Witness ==
    /\ cpc = "tagged"
    /\ Concerns = concerns_events
    /\ EmergingRiskName = emerging_risks
    /\ MiscTopics = misc_topics
    /\ Tag # "Current"



(***************************************************************************)
(* Classification pipeline: summarize, classify, reflect, final            *)
(* verification of each article of a batch.  The stage prompts and their  *)
(* output formats are those of prompts.py; the enum of tags is VALID_TAGS  *)
(* of settings.py; the orchestration (which stage follows which, what a    *)
(* Gateway failure or an unparsable completion does) follows section 4.2   *)
(* of the design document.                                                 *)
(***************************************************************************)
VALID_TAGS_NoError == {"Current", "Potential New Trend", "Untagged"}

VALID_TAGS == {"Current", "Potential New Trend", "Untagged", "Processing Error"}

Stages == <<"summarize", "classify", "reflect", "verify">>

ArticleText(i) == <<"article", i>>

\* ---- completions in the output formats the prompts ask for ----
RECURSIVE ListItems(_)
ListItems(l) ==
    IF l = <<>> THEN <<>>
    ELSE IF Len(l) = 1 THEN Str(l[1])
    ELSE Str(Head(l)) \o <<",">> \o ListItems(Tail(l))

ListText(l) == <<"[">> \o ListItems(l) \o <<"]">>

SummaryText(reason) ==
    <<"{">> \o Member("ReasonIdentified", Str(reason)) \o <<"}">>

ClassificationText(cs, rs, ms) ==
    <<"{">> \o Member("Concerns", ListText(cs)) \o <<",">>
            \o Member("EmergingRiskName", ListText(rs)) \o <<",">>
            \o Member("MiscTopics", ListText(ms)) \o <<"}">>

VerificationText(reason, cs, rs, ms, tag) ==
    <<"{">> \o Member("ReasonIdentified", Str(reason)) \o <<",">>
            \o Member("Concerns", ListText(cs)) \o <<",">>
            \o Member("EmergingRiskName", ListText(rs)) \o <<",">>
            \o Member("MiscTopics", ListText(ms)) \o <<",">>
            \o Member("Tag", Str(tag)) \o <<"}">>

\* the completions a stage may receive: nothing, a truncated object, and
\* objects in each of the three output formats
StageTexts ==
    { <<>>, Truncated,
      SummaryText("summary"),
      ClassificationText(<<"lawsuits">>, <<>>, <<>>),
      ClassificationText(<<"lawsuits", "injuries">>, <<"PFAS">>, <<"home ownership">>),
      VerificationText("refined", <<>>, <<>>, <<>>, "Untagged"),
      VerificationText("refined", <<"lawsuits">>, <<"PFAS">>, <<>>, "Current") }

\* ---- the fields a stage takes from its parsed completion ----
StringField(o, key) == IF Get(o, key).t = "str" THEN Get(o, key) ELSE NullV
ListField(o, key) == IF Get(o, key).t = "list" THEN Get(o, key).v ELSE <<>>

EmptyFields ==
    [ReasonIdentified |-> NullV, Concerns |-> <<>>, EmergingRiskName |-> <<>>,
     MiscTopics |-> <<>>]

StageFields(text) ==
    LET o == ExtractJson(text)
    IN  [ReasonIdentified |-> StringField(o, "ReasonIdentified"),
         Concerns |-> ListField(o, "Concerns"),
         EmergingRiskName |-> ListField(o, "EmergingRiskName"),
         MiscTopics |-> ListField(o, "MiscTopics")]

\* ---- the prompts: what each template is formatted with ----
SummaryPrompt(text) == [text |-> text]
ClassifyPrompt(text) == [text |-> text]
ReflectPrompt(data) == [data |-> data]
FinalPromptNoSummary(text, summary, f) ==
    [data |-> text, reason_identified |-> NullV, concerns |-> f.Concerns,
     emerging_risks |-> f.EmergingRiskName, misc_topics |-> f.MiscTopics]

FinalPrompt(text, summary, f) ==
    [data |-> text, reason_identified |-> summary, concerns |-> f.Concerns,
     emerging_risks |-> f.EmergingRiskName, misc_topics |-> f.MiscTopics]


\* ---- orchestration ----
NewRecord ==
    [ReasonIdentified |-> NullV, Concerns |-> <<>>, EmergingRiskName |-> <<>>,
     MiscTopics |-> <<>>, Tag |-> ""]

NextStage(stage) ==
    CASE stage = "summarize" -> "classify"
      [] stage = "classify" -> "reflect"
      [] stage = "reflect" -> "verify"
      [] stage = "verify" -> "emitted"

\* the prompt of a stage, formatted with the article and the earlier outputs
PromptOf(stage) ==
    CASE stage = "summarize" -> SummaryPrompt(ArticleText(particle))
      [] stage = "classify" -> ClassifyPrompt(ArticleText(particle))
      [] stage = "reflect" -> ReflectPrompt(pout[2])
      [] stage = "verify" ->
            FinalPrompt(ArticleText(particle), prec.ReasonIdentified, pout[3])

\* the record after a stage whose completion yielded the fields f
RecordAfter(stage, rec, f) ==
    CASE stage = "summarize" ->
            [rec EXCEPT !.ReasonIdentified = f.ReasonIdentified]
      [] stage \in {"classify", "reflect"} ->
            [rec EXCEPT !.Concerns = f.Concerns,
                        !.EmergingRiskName = f.EmergingRiskName,
                        !.MiscTopics = f.MiscTopics]
      [] stage = "verify" ->
            [ReasonIdentified |-> IF f.ReasonIdentified # NullV
                                  THEN f.ReasonIdentified
                                  ELSE rec.ReasonIdentified,
             Concerns |-> f.Concerns,
             EmergingRiskName |-> f.EmergingRiskName,
             MiscTopics |-> f.MiscTopics,
             Tag |-> TaggingStrategy(f.Concerns # <<>>,
                                     f.EmergingRiskName # <<>>,
                                     f.MiscTopics # <<>>)]

\* a completion none of the extraction strategies can parse
Unparsable(text) == ExtractJson(text) = EmptyObj

\* what an unparsable completion does to the run: the stage's fields stay
\* empty and the next stage runs
OnUnparsableStops == "stop"

OnUnparsable == "continue"

\* what a Gateway failure does to the run: the article's record is emitted
\* with the error tag, nothing is raised to the caller
OnGatewayFailure(rec) ==
    [propagated |-> FALSE, record |-> [rec EXCEPT !.Tag = "Processing Error"]]

\* the Gateway call of a stage returns a completion; the stage parses it
\* (into pout) and updates the record
StageReturns(stage) ==
    /\ ppc = stage
    /\ \E text \in StageTexts :
        /\ pcalls' = Append(pcalls, stage)
        /\ pprompt' = Append(pprompt, PromptOf(stage))
        /\ ptexts' = Append(ptexts, text)
        /\ pout' = Append(pout, StageFields(text))
        /\ IF OnUnparsable = "stop" /\ Unparsable(text)
           THEN /\ prec' = [prec EXCEPT !.Tag = "Processing Error"]
                /\ ppc' = "emitted"
           ELSE /\ prec' = RecordAfter(stage, prec, pout'[Len(pout')])
                /\ ppc' = NextStage(stage)
        /\ ptags' = IF ppc' = "emitted" THEN Append(ptags, prec'.Tag) ELSE ptags
    /\ UNCHANGED <<particle, pfailed, ppropagated>>
    /\ UNCHANGED <<compileVars, execVars, tagVars, invVars, concVars, dbVars, retrVars, uiVars>>

Summarize == StageReturns("summarize")
Classify == StageReturns("classify")
Reflect == StageReturns("reflect")
FinalVerify == StageReturns("verify")

\* the Gateway call of the current stage raises
StageGatewayRaises ==
    /\ ppc \in {"summarize", "classify", "reflect", "verify"}
    /\ pcalls' = Append(pcalls, ppc)
    /\ pprompt' = Append(pprompt, PromptOf(ppc))
    /\ pfailed' = ppc
    /\ prec' = OnGatewayFailure(prec).record
    /\ ppropagated' = OnGatewayFailure(prec).propagated
    /\ ptags' = Append(ptags, OnGatewayFailure(prec).record.Tag)
    /\ ppc' = "emitted"
    /\ UNCHANGED <<particle, pout, ptexts>>
    /\ UNCHANGED <<compileVars, execVars, tagVars, invVars, concVars, dbVars, retrVars, uiVars>>

\* the batch goes on to its next article
NextBatchArticle ==
    /\ ppc = "emitted"
    /\ ~ppropagated
    /\ particle < MaxBatch
    /\ particle' = particle + 1
    /\ ppc' = "summarize"
    /\ pcalls' = <<>> /\ pprompt' = <<>> /\ pout' = <<>> /\ ptexts' = <<>>
    /\ prec' = NewRecord
    /\ pfailed' = ""
    /\ UNCHANGED <<ppropagated, ptags>>
    /\ UNCHANGED <<compileVars, execVars, tagVars, invVars, concVars, dbVars, retrVars, uiVars>>

PipeInit ==
    /\ CompileIdle /\ ExecIdle /\ TagIdle /\ InvokeIdle /\ ConcIdle /\ DbIdle /\ RetrIdle /\ UiIdle
    /\ ppc = "summarize" /\ particle = 1
    /\ pcalls = <<>> /\ pprompt = <<>> /\ pout = <<>> /\ ptexts = <<>>
    /\ prec = NewRecord
    /\ pfailed = "" /\ ppropagated = FALSE /\ ptags = <<>>

PipeNext ==
    \/ Summarize
    \/ Classify
    \/ Reflect
    \/ FinalVerify
    \/ StageGatewayRaises
    \/ NextBatchArticle

PipeSpec == PipeInit /\ [][PipeNext]_vars



(***************************************************************************)
(* Claims about the classification pipeline (specification PipeSpec).      *)
(***************************************************************************)
\* the fields the run had gathered when it ended after n completed stages
GatheredReason == IF Len(pout) >= 1 THEN pout[1].ReasonIdentified ELSE NullV
GatheredLists ==
    IF Len(pout) >= 2
    THEN <<pout[Len(pout)].Concerns, pout[Len(pout)].EmergingRiskName,
           pout[Len(pout)].MiscTopics>>
    ELSE <<<<>>, <<>>, <<>>>>

\* C12: when the Gateway call of a stage (summarize, classify, reflect or
\* final verification) fails, the run stops at that stage and a record is
\* emitted whose Tag is 'Processing Error', a member of the tag enum, with
\* the fields gathered so far; nothing is raised to the caller, and every
\* article of the batch taken up so far has its record.
C12_GatewayFailureYieldsProcessingError ==
    /\ (ppc = "emitted" /\ pfailed # "") =>
        /\ prec.Tag = "Processing Error"
        /\ prec.Tag \in VALID_TAGS
        /\ ~ppropagated
        /\ pcalls[Len(pcalls)] = pfailed
        /\ Len(pout) = Len(pcalls) - 1
        /\ prec.ReasonIdentified = GatheredReason
        /\ <<prec.Concerns, prec.EmergingRiskName, prec.MiscTopics>> = GatheredLists
    /\ Len(ptags) = (IF ppc = "emitted" THEN particle ELSE particle - 1)

C12_Witness ==
    /\ particle = 2
    /\ ptags[1] = "Processing Error"
    /\ ppc = "emitted"
    /\ pfailed = "reflect"
    /\ prec.Concerns # <<>>
    /\ prec.Tag = "Processing Error"

InvokeDefaultMaxTokens == 5000

ModelIds == {"model-a", "model-b"}
Prompts == {<<"p">>, <<"q">>, <<"p", "q">>}
InvokeArguments ==
    [model_id : ModelIds, prompt : Prompts,
     max_tokens : {MaxTokens, InvokeDefaultMaxTokens}, temperature : {Temperature}]

\* response bodies the endpoint may send
ContentBody(blocks) == <<"{">> \o Member("content", <<"[">> \o blocks \o <<"]">>) \o <<"}">>
TextBlock(val) == <<"{">> \o Member("text", val) \o <<"}">>
ResponseBodies ==
    { ContentBody(TextBlock(Str("x"))),
      ContentBody(TextBlock(<<QUOTE, "{", "}", QUOTE>>)),
      ContentBody(TextBlock(Str("x")) \o <<",">> \o TextBlock(Str("y"))),
      ContentBody(TextBlock(<<"null">>)),
      ContentBody(<<"{", "}">>),
      ContentBody(<<>>),
      ContentBody(<<"5">>),
      <<"{">> \o Member("content", <<"null">>) \o <<"}">>,
      <<"{", "}">>,
      <<"[", "5", "]">>,
      Truncated,
      <<>> }

NoResponse == [ok |-> FALSE, sent |-> FALSE]
ClientFault == [ok |-> FALSE, sent |-> TRUE]
ClientResponse(body) == [ok |-> TRUE, sent |-> TRUE, body |-> body]

NoText == [t |-> "none"]

\* lines 58-59: json.loads of the body, then
\* response_body.get("content", [{}])[0].get("text", "")
DecodeResponse(body) ==
    LET r == JsonLoads(body)
        content == IF Has(r.val, "content") THEN Get(r.val, "content")
                   ELSE ListV(<<EmptyObj>>)
        block == content.v[1]
    IN  IF ~r.ok \/ r.val.t # "obj" THEN [raises |-> TRUE, text |-> NoText]
        ELSE IF content.t # "list" \/ content.v = <<>> THEN [raises |-> TRUE, text |-> NoText]
        ELSE IF block.t # "obj" THEN [raises |-> TRUE, text |-> NoText]
        ELSE [raises |-> FALSE,
              text |-> IF Has(block, "text") THEN Get(block, "text") ELSE StrV(<<>>)]

\* lines 61-63: any exception is logged and raised again
InvokeExceptReturnsEmpty == [raised |-> FALSE, ret |-> StrV(<<>>)]

InvokeExcept == [raised |-> TRUE, ret |-> NoText]

InvokeModelCall ==
    /\ ipc = "idle"
    /\ iargs' \in InvokeArguments
    /\ ipc' = "requesting"
    /\ irequests' = 0 /\ iresp' = NoResponse /\ iret' = NoText /\ iraised' = FALSE
    /\ UNCHANGED <<compileVars, execVars, tagVars, pipeVars, concVars, dbVars, retrVars, uiVars>>

\* client.invoke_model returns a response; its body is decoded
InvokeModelResponse ==
    /\ ipc = "requesting"
    /\ \E body \in ResponseBodies :
        /\ iresp' = ClientResponse(body)
        /\ IF DecodeResponse(body).raises
           THEN iraised' = InvokeExcept.raised /\ iret' = InvokeExcept.ret
           ELSE iraised' = FALSE /\ iret' = DecodeResponse(body).text
    /\ irequests' = irequests + 1
    /\ ipc' = "done"
    /\ UNCHANGED <<iargs, compileVars, execVars, tagVars, pipeVars, concVars, dbVars, retrVars, uiVars>>

\* client.invoke_model raises (transport, authentication, throttling)
InvokeModelFault ==
    /\ ipc = "requesting"
    /\ iresp' = ClientFault
    /\ iraised' = InvokeExcept.raised /\ iret' = InvokeExcept.ret
    /\ irequests' = irequests + 1
    /\ ipc' = "done"
    /\ UNCHANGED <<iargs, compileVars, execVars, tagVars, pipeVars, concVars, dbVars, retrVars, uiVars>>

InvokeInit ==
    /\ CompileIdle /\ ExecIdle /\ TagIdle /\ PipeIdle /\ ConcIdle /\ DbIdle /\ RetrIdle /\ UiIdle
    /\ ipc = "idle" /\ iargs \in InvokeArguments /\ irequests = 0
    /\ iresp = NoResponse /\ iret = NoText /\ iraised = FALSE

InvokeNext == InvokeModelCall \/ InvokeModelResponse \/ InvokeModelFault

InvokeSpec == InvokeInit /\ [][InvokeNext]_vars

\* C18: one invocation of invoke_model sends at most one request; when the
\* request fails or its response does not decode to a content block, the
\* invocation raises and returns no text; otherwise it returns the text of
\* the first content block and does not raise.
C18_OneRequestRaisesOnFailure ==
    /\ irequests <= 1
    /\ ipc = "done" =>
        /\ irequests = 1
        /\ iresp.sent
        /\ LET failed == ~iresp.ok \/ DecodeResponse(iresp.body).raises
           IN  /\ failed => (iraised /\ iret = NoText)
               /\ ~failed => (~iraised /\ iret # NoText
                                /\ iret = DecodeResponse(iresp.body).text)

C18_Witness ==
    /\ ipc = "done"
    /\ iresp.ok
    /\ iresp.body = ContentBody(<<>>)
    /\ iraised
    /\ irequests = 1



(***************************************************************************)
(* Two callers running generate_query at once on one QueryGenerator.  A    *)
(* frame holds the locals of one call (user_query, prompt, response_text,  *)
(* the returned value); generator holds what the calls share: the fields   *)
(* of the object and the reference lists _prepare_schema reads.            *)
(***************************************************************************)
Callers == {1, 2}

ConcTexts == {<<>>, <<"x">>, ObjScan, ObjBad, Truncated, <<"{", "}">>}

SharedGenerator ==
    [model_id |-> "anthropic.claude-3-5-sonnet-20240620-v1:0",
     concerns_events |-> concerns_events,
     emerging_risks |-> emerging_risks,
     misc_topics |-> misc_topics]

IdleFrame ==
    [pc |-> "idle", user_query |-> <<>>, prompt |-> <<>>, response_text |-> <<>>,
     failed |-> FALSE, result |-> NullV]

\* the text _extract_json is given: the local response_text of the call
ResponseReadShared(c) == lastResponse

ResponseRead(c) == frames[c].response_text

\* lines 170-182: the prompt is formatted from the schema and the user text
\* and the Gateway request is issued
ConcCall(c) ==
    /\ frames[c].pc = "idle"
    /\ \E u \in UserTexts :
        frames' = [frames EXCEPT ![c] =
            [@ EXCEPT !.pc = "invoking", !.user_query = u,
                      !.prompt = [model_id |-> generator.model_id,
                                  schema |-> <<generator.concerns_events,
                                               generator.emerging_risks,
                                               generator.misc_topics>>,
                                  query |-> u]]]
    /\ UNCHANGED <<generator, lastResponse>>
    /\ UNCHANGED <<compileVars, execVars, tagVars, pipeVars, invVars, dbVars, retrVars, uiVars>>

\* invoke_model returns a completion to this call
ConcReturns(c) ==
    /\ frames[c].pc = "invoking"
    /\ \E text \in ConcTexts :
        /\ frames' = [frames EXCEPT ![c] =
                        [@ EXCEPT !.pc = "extracting", !.response_text = text]]
        /\ lastResponse' = text
    /\ UNCHANGED generator
    /\ UNCHANGED <<compileVars, execVars, tagVars, pipeVars, invVars, dbVars, retrVars, uiVars>>

\* invoke_model raises in this call: the except clause returns the default
ConcRaises(c) ==
    /\ frames[c].pc = "invoking"
    /\ frames' = [frames EXCEPT ![c] =
                    [@ EXCEPT !.pc = "returned", !.failed = TRUE,
                              !.result = ExceptHandler.value]]
    /\ UNCHANGED <<generator, lastResponse>>
    /\ UNCHANGED <<compileVars, execVars, tagVars, pipeVars, invVars, dbVars, retrVars, uiVars>>

\* lines 187-196: _extract_json, the falsy check, the return
ConcExtract(c) ==
    /\ frames[c].pc = "extracting"
    /\ frames' = [frames EXCEPT ![c] =
                    [@ EXCEPT !.pc = "returned",
                              !.result = AfterExtract(ExtractJson(ResponseRead(c))).value]]
    /\ UNCHANGED <<generator, lastResponse>>
    /\ UNCHANGED <<compileVars, execVars, tagVars, pipeVars, invVars, dbVars, retrVars, uiVars>>

ConcInit ==
    /\ CompileIdle /\ ExecIdle /\ TagIdle /\ PipeIdle /\ InvokeIdle /\ DbIdle /\ RetrIdle /\ UiIdle
    /\ frames = [c \in Callers |-> IdleFrame]
    /\ generator = SharedGenerator
    /\ lastResponse = <<>>

ConcNext ==
    \E c \in Callers : ConcCall(c) \/ ConcReturns(c) \/ ConcRaises(c) \/ ConcExtract(c)

ConcSpec == ConcInit /\ [][ConcNext]_vars

\* C19: with two compilations in progress on one QueryGenerator, the value
\* each returns is determined by its own completion (or is the default when
\* its own Gateway call failed), its prompt carries its own user text, and
\* the object's fields and the reference lists are never modified.
C19_ConcurrentCompilationsIndependent ==
    /\ generator = SharedGenerator
    /\ \A c \in Callers :
        /\ frames[c].pc # "idle" => frames[c].prompt.query = frames[c].user_query
        /\ frames[c].pc = "returned" =>
            frames[c].result =
                IF frames[c].failed THEN GetDefaultQuery
                ELSE AfterExtract(ExtractJson(frames[c].response_text)).value

C19_Witness ==
    /\ frames[1].pc = "returned" /\ frames[2].pc = "returned"
    /\ frames[1].response_text = ObjScan /\ frames[2].response_text = ObjBad
    /\ lastResponse = ObjScan
    /\ frames[1].result # frames[2].result



(***************************************************************************)
(* DynamoDBManager (dynamo.py): upsert_item, update_record_by_url with its *)
(* scan fallback, _update_by_scan_and_replace, over a table whose primary  *)
(* key is (URL, DateTime).  An item is a function from attribute names to  *)
(* values; Python's None is NullV.  Each handler is computed as a whole:   *)
(* the table after it, the value it returns and the store operations it    *)
(* issued.  A fault plan names the store operation of the call (by         *)
(* position) that fails and the error it fails with.                       *)
(***************************************************************************)
S(w) == StrV(<<w>>)
DbUrls == {"u1", "u2"}
DateTimes == <<"t1", "t2">>
At(d, a) == IF a \in DOMAIN d THEN d[a] ELSE NullV

\* the key schema of the table: URL and DateTime; the runs of the urlkey
\* family use a table whose only key attribute is URL (the "primary key
\* structure that doesn't match expectations" of line 224), where an item
\* need not have a DateTime
KeyAttrs == IF dbInputs = "urlkey" THEN {"URL"} ELSE {"URL", "DateTime"}
KeyOf(item) ==
    <<item.URL.v[1], IF "DateTime" \in DOMAIN item THEN item.DateTime.v[1] ELSE "">>
Rank(t) == IF t = "" THEN 0 ELSE CHOOSE i \in 1..Len(DateTimes) : DateTimes[i] = t

\* {k: v for k, v in d.items() if v is not None}
CleanNone(d) == [k \in {a \in DOMAIN d : d[a] # NullV} |-> d[k]]

\* the error codes after which update_record_by_url falls back to the scan
FallbackCodesAnyCode ==
    {"ValidationException", "ResourceNotFoundException", "ThrottlingException"}

FallbackCodes == {"ValidationException", "ResourceNotFoundException"}
ClientErrors ==
    {"ValidationException", "ResourceNotFoundException", "ThrottlingException"}
FaultPlans(n) ==
    {[at |-> 0, kind |-> "none"]}
        \cup [at : 1..n, kind : {"ValidationException", "ThrottlingException",
                                 "EndpointConnectionError"}]
Fault(plan, n) == IF plan.at = n THEN plan.kind ELSE "none"

\* table.query(KeyConditionExpression=Key('URL').eq(url)): the items of the
\* partition in ascending order of the sort key
QueryItems(tbl, url) ==
    LET ks == {k \in DOMAIN tbl : k[1] = url}
    IN  [i \in 1..Cardinality(ks) |->
            tbl[CHOOSE k \in ks :
                    Cardinality({j \in ks : Rank(j[2]) < Rank(k[2])}) = i - 1]]

\* table.scan(FilterExpression=Attr('URL').eq(url), Limit=1): one item is
\* read, the first item of the first partition in scan order, and the
\* filter is applied to it
ScanHead(tbl, order) ==
    LET ps == {i \in 1..Len(order) : \E k \in DOMAIN tbl : k[1] = order[i]}
        p == CHOOSE i \in ps : \A j \in ps : i <= j
    IN  IF ps = {} THEN <<>> ELSE KeyOf(QueryItems(tbl, order[p])[1])
ScanItems(tbl, url, head) ==
    IF head # <<>> /\ head[1] = url THEN <<tbl[head]>> ELSE <<>>

\* table.update_item(Key={URL, DateTime}, "SET ..."): a Key that is not the
\* key schema of the table and a SET on a key attribute are rejected; the
\* item is created when the key is new
UpdateItemFirstClauseOnly(tbl, key, fu, fault) ==
    LET err == IF fault # "none" THEN fault
               ELSE IF DOMAIN fu \cap KeyAttrs # {} THEN "ValidationException"
               ELSE "none"
        a == CHOOSE x \in DOMAIN fu : TRUE
    IN  [err |-> err,
         table |-> IF err = "none" THEN (key :> ((a :> fu[a]) @@ tbl[key])) @@ tbl ELSE tbl]

UpdateItemReplaces(tbl, key, fu, fault) ==
    LET err == IF fault # "none" THEN fault
               ELSE IF KeyAttrs # {"URL", "DateTime"} THEN "ValidationException"
               ELSE IF DOMAIN fu \cap KeyAttrs # {} THEN "ValidationException"
               ELSE "none"
    IN  [err |-> err,
         table |-> IF err = "none"
                   THEN (key :> (fu @@ [URL |-> S(key[1]), DateTime |-> S(key[2])])) @@ tbl
                   ELSE tbl]

UpdateItem(tbl, key, fu, fault) ==
    LET err == IF fault # "none" THEN fault
               ELSE IF KeyAttrs # {"URL", "DateTime"} THEN "ValidationException"
               ELSE IF DOMAIN fu \cap KeyAttrs # {} THEN "ValidationException"
               ELSE "none"
        old == IF key \in DOMAIN tbl THEN tbl[key]
               ELSE [URL |-> S(key[1]), DateTime |-> S(key[2])]
    IN  [err |-> err,
         table |-> IF err = "none" THEN (key :> (fu @@ old)) @@ tbl ELSE tbl]

\* table.put_item(Item): the item needs both key attributes; it replaces
\* the item of the same key or becomes a new item
PutItem(tbl, item, fault) ==
    LET err == IF fault # "none" THEN fault
               ELSE IF ~(KeyAttrs \subseteq DOMAIN item) THEN "ValidationException"
               ELSE "none"
    IN  [err |-> err,
         table |-> IF err = "none" THEN (KeyOf(item) :> item) @@ tbl ELSE tbl]

Ret(tbl, ret, ops) == [table |-> tbl, ret |-> ret, ops |-> ops]

\* one store operation of a call and the error it raised
Op(name, err) == [op |-> name, err |-> err]

\* upsert_item (87-98): only ClientError is caught
UpsertItem(tbl, item, plan) ==
    LET put == PutItem(tbl, CleanNone(item), Fault(plan, 1))
    IN  Ret(put.table,
            IF put.err = "none" THEN "True"
            ELSE IF put.err \in ClientErrors THEN "False" ELSE "raised",
            <<Op("put_item", put.err)>>)

\* _update_by_scan_method (175-218), entered after the operations ops;
\* its except clause (216-218) catches every exception
UpdateByScanMethod(tbl, url, fu, plan, head, ops) ==
    LET n == Len(ops)
        sc == Fault(plan, n + 1)
        found == ScanItems(tbl, url, head)
        upd == UpdateItem(tbl, KeyOf(found[1]), fu, Fault(plan, n + 2))
    IN  IF sc # "none" \/ found = <<>> \/ At(found[1], "DateTime") = NullV
        THEN Ret(tbl, "False", Append(ops, Op("scan", sc)))
        ELSE Ret(upd.table, IF upd.err = "none" THEN "True" ELSE "False",
                 ops \o <<Op("scan", "none"), Op("update_item", upd.err)>>)

\* the outer except clause of update_record_by_url (171-173), reached by an
\* error that is no ClientError
OuterExceptClientErrorOnly(err) == IF err \in ClientErrors THEN "False" ELSE "raised"

OuterExcept(err) == "False"

\* the inner except clause of update_record_by_url (159-169), entered after
\* the operations ops, the last of which raised the ClientError err
InnerExcept(tbl, url, fu, plan, head, ops, err) ==
    IF err \in FallbackCodes
    THEN UpdateByScanMethod(tbl, url, fu, plan, head, ops)
    ELSE Ret(tbl, "False", ops)

\* update_record_by_url (101-173)
UpdateRecordByUrl(tbl, url, updates, plan, head) ==
    LET fu == CleanNone(updates)
        found == QueryItems(tbl, url)
        q == Fault(plan, 1)
        upd == UpdateItem(tbl, KeyOf(found[1]), fu, Fault(plan, 2))
    IN  IF url = "" \/ DOMAIN fu = {} THEN Ret(tbl, "False", <<>>)
        ELSE IF q \in ClientErrors
             THEN InnerExcept(tbl, url, fu, plan, head, <<Op("query", q)>>, q)
        ELSE IF q # "none" THEN Ret(tbl, OuterExcept(q), <<Op("query", q)>>)
        ELSE IF DOMAIN found = {} \/ At(found[1], "DateTime") = NullV
             THEN Ret(tbl, "False", <<Op("query", "none")>>)
        ELSE IF upd.err \in ClientErrors
             THEN InnerExcept(tbl, url, fu, plan, head,
                              <<Op("query", "none"), Op("update_item", upd.err)>>, upd.err)
        ELSE Ret(upd.table, IF upd.err = "none" THEN "True" ELSE OuterExcept(upd.err),
                 <<Op("query", "none"), Op("update_item", upd.err)>>)

\* _update_by_scan_and_replace (221-255)
UpdateByScanAndReplace(tbl, url, updates, plan, head) ==
    LET sc == Fault(plan, 1)
        found == ScanItems(tbl, url, head)
        put == PutItem(tbl, CleanNone(updates) @@ found[1], Fault(plan, 2))
    IN  IF sc # "none" \/ found = <<>> THEN Ret(tbl, "False", <<Op("scan", sc)>>)
        ELSE Ret(put.table, IF put.err = "none" THEN "True" ELSE "False",
                 <<Op("scan", "none"), Op("put_item", put.err)>>)


\* ---- the arguments of the calls ----
\* two entries of the NAICS reference table: the taxonomy module that holds
\* the table is imported by query_generator.py (line 5) but is not part of
\* src; the first entry is the example of TABLE_SCHEMA (27-28), the second
\* stands for any other entry
NaicsTable ==
    {<<"327910", "Abrasive Product Manufacturing">>, <<"111110", "Soybean Farming">>}

\* a record as the crawler stores it, before classification
Ingested(u, t) == [URL |-> S(u), DateTime |-> S(t)]

\* a classification result whose tag is the tagging strategy of its own
\* fields; an empty field is passed as None
ClassificationResult(c, r, m) ==
    [Concerns |-> IF c THEN S("lawsuits") ELSE NullV,
     EmergingRiskName |-> IF r THEN S("PFAS") ELSE NullV,
     MiscTopics |-> IF m THEN S("home ownership") ELSE NullV,
     Tag |-> S(TaggingStrategy(c, r, m))]

NaicsFields(code, desc) == [NAICSCODE |-> code, NAICSDescription |-> desc]

\* the updates of a run, by family
InputUpdates(family) ==
    CASE family = "classification" ->
            {ClassificationResult(FALSE, FALSE, FALSE),
             ClassificationResult(TRUE, FALSE, FALSE),
             ClassificationResult(TRUE, TRUE, FALSE),
             ClassificationResult(TRUE, TRUE, TRUE)}
      [] family = "naics" ->
            {NaicsFields(S(p[1]), S(p[2])) : p \in NaicsTable}
                \cup {NaicsFields(NullV, NullV) @@ [Tag |-> S("Untagged")],
                      NaicsFields(S("327910"), NullV)}
      [] family = "keys" ->
            {[Tag |-> S("Current")],
             [Tag |-> S("Current"), DateTime |-> S("t2")],
             [Tag |-> S("Current"), URL |-> S("u2")],
             [Tag |-> NullV, Concerns |-> NullV],
             [a \in {} |-> NullV]}
      [] family = "urlkey" -> {[Tag |-> S("Current")]}

\* the items of a run, by family: one article crawled twice; one article
\* with and without NAICS fields; two articles; one article stored without
\* a DateTime
InputItems(family) ==
    CASE family = "classification" ->
            {Ingested("u1", DateTimes[i]) : i \in 1..Len(DateTimes)}
      [] family = "naics" ->
            {n @@ Ingested("u1", "t1") :
                n \in {NaicsFields(S("111110"), S("Soybean Farming")),
                       NaicsFields(NullV, NullV),
                       NaicsFields(NullV, S("Soybean Farming"))}}
      [] family = "keys" -> {Ingested(u, "t1") : u \in DbUrls}
      [] family = "urlkey" ->
            {[URL |-> S("u1")], [URL |-> S("u1"), Tag |-> S("Untagged")]}

\* the url arguments of a run
InputUrls(family) ==
    CASE family = "classification" -> {"u1"}
      [] family = "keys" -> DbUrls \cup {""}
      [] OTHER -> {"u1"}

\* the orders in which a scan may read the partitions
ScanOrders(family) ==
    IF family = "keys" THEN {<<"u1", "u2">>, <<"u2", "u1">>} ELSE {<<"u1">>}

\* NAICSCODE and NAICSDescription of d: both None or missing, or one entry
\* of the NAICS table
NaicsPaired(d) ==
    \/ At(d, "NAICSCODE") = NullV /\ At(d, "NAICSDescription") = NullV
    \/ \E p \in NaicsTable :
        At(d, "NAICSCODE") = S(p[1]) /\ At(d, "NAICSDescription") = S(p[2])

\* ---- the calls ----
DbReturn(out, op, url, arg) ==
    /\ Cardinality(DOMAIN out.table) <= MaxItems
    /\ table' = out.table
    /\ dbRet' = out.ret
    /\ dbOps' = out.ops
    /\ dbCall' = [op |-> op, url |-> url, arg |-> arg]
    /\ dbInputsOk' = (dbInputsOk /\ NaicsPaired(arg))
    /\ UNCHANGED <<dbInputs, dbScanOrder>>
    /\ UNCHANGED <<compileVars, execVars, tagVars, pipeVars, invVars, concVars, retrVars, uiVars>>

DbUpsertItem ==
    \E item \in InputItems(dbInputs), plan \in FaultPlans(1) :
        DbReturn(UpsertItem(table, item, plan), "upsert_item", "", item)

DbUpdateRecordByUrl ==
    \E url \in InputUrls(dbInputs), updates \in InputUpdates(dbInputs),
       plan \in FaultPlans(4) :
        DbReturn(UpdateRecordByUrl(table, url, updates, plan, ScanHead(table, dbScanOrder)),
                 "update_record_by_url", url, updates)

\* _update_by_scan_and_replace has no caller in dynamo.py; the runs of the
\* keys family call it
DbUpdateByScanAndReplace ==
    /\ dbInputs = "keys"
    /\ \E url \in InputUrls(dbInputs), updates \in InputUpdates(dbInputs),
          plan \in FaultPlans(2) :
        DbReturn(UpdateByScanAndReplace(table, url, updates, plan, ScanHead(table, dbScanOrder)),
                 "_update_by_scan_and_replace", url, updates)

DbInit ==
    /\ CompileIdle /\ ExecIdle /\ TagIdle /\ PipeIdle /\ InvokeIdle /\ ConcIdle /\ RetrIdle /\ UiIdle
    /\ table = [k \in {} |-> NullV]
    /\ dbCall = [op |-> "", url |-> "", arg |-> <<>>]
    /\ dbRet = "" /\ dbOps = <<>>
    /\ dbInputs \in {"classification", "naics", "keys", "urlkey"}
    /\ dbScanOrder \in ScanOrders(dbInputs)
    /\ dbInputsOk = TRUE

DbNext == DbUpsertItem \/ DbUpdateRecordByUrl \/ DbUpdateByScanAndReplace

DbSpec == DbInit /\ [][DbNext]_vars



(***************************************************************************)
(* Claims about the stored records (specification DbSpec).                 *)
(***************************************************************************)
\* the tagging strategy applied to the stored fields of an item
TagOfStored(item) ==
    TaggingStrategy(At(item, "Concerns") # NullV,
                    At(item, "EmergingRiskName") # NullV,
                    At(item, "MiscTopics") # NullV)

\* C14: in a run whose only updates are update_record_by_url calls that
\* each carry a classification result tagged by the strategy of its own
\* fields (empty fields passed as None), every stored record whose Tag is
\* present and not 'Processing Error' has a Tag of the enum that equals the
\* strategy applied to its stored Concerns, EmergingRiskName, MiscTopics.
C14_StoredTagIsTreeOfStoredFields ==
    dbInputs = "classification" =>
        \A k \in DOMAIN table :
            (At(table[k], "Tag") \notin {NullV, S("Processing Error")}) =>
                /\ table[k].Tag.v[1] \in VALID_TAGS
                /\ table[k].Tag = S(TagOfStored(table[k]))

\* C15 (as claimed): after any sequence of upsert_item and
\* update_record_by_url calls, NAICSCODE and NAICSDescription of every
\* stored record are both absent or are one entry of the NAICS table.
C15_StoredNaicsPaired ==
    dbInputs = "naics" => \A k \in DOMAIN table : NaicsPaired(table[k])

\* C15 (amended): the same, for sequences of calls each of which carries
\* NAICSCODE and NAICSDescription both None or as one entry of the table.
C15_StoredNaicsPairedForPairedInputs ==
    (dbInputs = "naics" /\ dbInputsOk) =>
        \A k \in DOMAIN table : NaicsPaired(table[k])

C15_Witness ==
    /\ dbInputs = "naics" /\ dbInputsOk
    /\ dbCall.op = "update_record_by_url" /\ dbRet = "True"
    /\ <<"u1", "t1">> \in DOMAIN table
    /\ table[<<"u1", "t1">>].NAICSCODE = S("327910")
    /\ table[<<"u1", "t1">>].NAICSDescription = S("Abrasive Product Manufacturing")

\* C20: a call of update_record_by_url (with its scan fallback) or of
\* _update_by_scan_and_replace leaves the set of primary keys of the table
\* as it was, and every item keeps the URL and DateTime of its key: no
\* update adds a second record or changes the key of a stored one.
C20_UpdatesKeepKeys ==
    [][ /\ dbCall'.op \in {"update_record_by_url", "_update_by_scan_and_replace"}
            => DOMAIN table' = DOMAIN table
        /\ \A k \in DOMAIN table' : KeyOf(table'[k]) = k ]_vars

\* the stored records of a url
RecordsOf(tbl, url) == {k \in DOMAIN tbl : k[1] = url}

\* the record of a url with the greatest DateTime
MostRecent(tbl, url) ==
    CHOOSE k \in RecordsOf(tbl, url) :
        \A j \in RecordsOf(tbl, url) : Rank(j[2]) <= Rank(k[2])

\* item new is item old with exactly the fields of updates that are not
\* None set to the values of updates
SetsGivenFields(old, new, updates) ==
    /\ DOMAIN new = DOMAIN old \cup {a \in DOMAIN updates : updates[a] # NullV}
    /\ \A a \in DOMAIN new :
        new[a] = IF a \in DOMAIN updates /\ updates[a] # NullV THEN updates[a] ELSE old[a]

\* C23: a successful update_record_by_url on a url with several stored
\* records sets the fields on the record with the greatest DateTime and
\* changes no other record.
C23_UpdatesMostRecent ==
    [][ (/\ dbCall'.op = "update_record_by_url" /\ dbRet' = "True"
         /\ Cardinality(RecordsOf(table, dbCall'.url)) > 1) =>
            LET m == MostRecent(table, dbCall'.url)
            IN  /\ DOMAIN table' = DOMAIN table
                /\ SetsGivenFields(table[m], table'[m], dbCall'.arg)
                /\ \A k \in DOMAIN table \ {m} : table'[k] = table[k] ]_vars

\* C24: a successful update_record_by_url(url, updates) sets exactly the
\* fields of updates that are not None on one record of that url; the other
\* fields of the record, a field passed as None among them, and every
\* other record are as before.
C24_UpdateSetsExactlyGivenFields ==
    [][ (dbCall'.op = "update_record_by_url" /\ dbRet' = "True") =>
            /\ DOMAIN table' = DOMAIN table
            /\ \E k \in RecordsOf(table, dbCall'.url) :
                /\ SetsGivenFields(table[k], table'[k], dbCall'.arg)
                /\ \A j \in DOMAIN table \ {k} : table'[j] = table[j] ]_vars

C24_Witness ==
    /\ dbInputs = "classification"
    /\ dbCall.op = "update_record_by_url" /\ dbRet = "True"
    /\ dbCall.arg = ClassificationResult(TRUE, FALSE, FALSE)
    /\ DOMAIN table = {<<"u1", "t1">>, <<"u1", "t2">>}
    /\ At(table[<<"u1", "t1">>], "EmergingRiskName") = S("PFAS")
    /\ At(table[<<"u1", "t1">>], "Tag") = S("Potential New Trend")
    /\ At(table[<<"u1", "t2">>], "Tag") = NullV

\* C25: update_record_by_url never raises, and it returns False and leaves
\* the table as it was when the url is empty, when updates has no value
\* other than None, when no record has the url, or when the record of the
\* url has no DateTime.
C25_RejectedUpdateWritesNothing ==
    [][ dbCall'.op = "update_record_by_url" =>
            /\ dbRet' # "raised"
            /\ (\/ dbCall'.url = ""
                \/ \A a \in DOMAIN dbCall'.arg : dbCall'.arg[a] = NullV
                \/ RecordsOf(table, dbCall'.url) = {}
                \/ \E k \in RecordsOf(table, dbCall'.url) : "DateTime" \notin DOMAIN table[k])
               => (dbRet' = "False" /\ table' = table) ]_vars

C25_Witness ==
    /\ dbInputs = "urlkey"
    /\ dbCall.op = "update_record_by_url" /\ dbCall.url = "u1"
    /\ dbCall.arg = [Tag |-> S("Current")]
    /\ dbRet = "False"
    /\ dbOps = <<Op("query", "none")>>
    /\ DOMAIN table = {<<"u1", "">>}
    /\ "DateTime" \notin DOMAIN table[<<"u1", "">>]

\* C26: in a call of update_record_by_url a scan is issued only directly
\* after an operation that raised ValidationException or
\* ResourceNotFoundException; an operation that raised any other error is
\* the last one and the call returns False; and the call returns False,
\* without raising, when the scan of the fallback fails or finds no record
\* or the write after it fails.
C26_FallbackOnlyAfterFallbackCodes ==
    dbCall.op = "update_record_by_url" =>
        /\ dbRet # "raised"
        /\ \A i \in 1..Len(dbOps) :
            /\ dbOps[i].op = "scan" =>
                /\ i > 1
                /\ dbOps[i - 1].err \in {"ValidationException", "ResourceNotFoundException"}
                /\ (dbOps[i].err # "none" \/ i = Len(dbOps) \/ dbOps[Len(dbOps)].err # "none")
                        => dbRet = "False"
            /\ dbOps[i].err \notin {"none", "ValidationException", "ResourceNotFoundException"}
                => (i = Len(dbOps) /\ dbRet = "False")

C26_Witness ==
    /\ dbCall.op = "update_record_by_url" /\ dbRet = "False"
    /\ dbOps = <<Op("query", "none"), Op("update_item", "ValidationException"),
                 Op("scan", "none"), Op("update_item", "ValidationException")>>


(***************************************************************************)
(* DynamoDBClient.retrieve_untagged_records (dynamo.py 292-328).           *)
(* A stored row is reduced to its Data and its Tag; an attribute the item  *)
(* does not have is Absent, a Tag stored with the NULL type is NullV.      *)
(***************************************************************************)
Absent == [t |-> "absent"]
DataValues == {Absent, S(""), S("text")}
TagValues ==
    {Absent, NullV, S(""), S("Untagged"), S("Current"), S("Potential New Trend"),
     S("Processing Error")}
StoredRows == [Data : DataValues, Tag : TagValues]
RStores == UNION {[1..n -> StoredRows] : n \in 0..MaxStored}

\* the FilterExpression of both scans (296-303, 311-318)
UntaggedFilterAnyData(row) ==
    /\ row.Data # Absent
    /\ \/ row.Tag = Absent
       \/ row.Tag = S("")
       \/ row.Tag = S("Untagged")
       \/ row.Tag \in {NullV}

UntaggedFilter(row) ==
    /\ row.Data # Absent                \* Attr('Data').exists()
    /\ row.Data # S("")                 \* Attr('Data').ne('')
    /\ \/ row.Tag = Absent              \* Attr('Tag').not_exists()
       \/ row.Tag = S("")               \* Attr('Tag').eq('')
       \/ row.Tag = S("Untagged")       \* Attr('Tag').eq('Untagged')
       \/ row.Tag \in {NullV}           \* Attr('Tag').is_in([None])

\* a scan request from position p evaluates at most MaxPage rows and
\* returns those that pass the filter
RetrPageSizes(p) ==
    IF Len(rstore) = p THEN {0} ELSE 1 .. Min(MaxPage, Len(rstore) - p)

\* whether the response carries LastEvaluatedKey after n more rows
RetrMoreChoices(p, n) ==
    IF p + n < Len(rstore) THEN {TRUE}
    ELSE IF n = MaxPage THEN {TRUE, FALSE}
    ELSE {FALSE}

RetrPage(p, n) == SelectSeq(SubSeq(rstore, p + 1, p + n), UntaggedFilter)

\* the value of the method: a list or an exception, after a number of scans
Returned(rows, failed, n) == [kind |-> "list", rows |-> rows, failed |-> failed, scans |-> n]
Running(n) == [kind |-> "none", rows |-> <<>>, failed |-> FALSE, scans |-> n]

\* a scan returns a page: the first scan (295-306) or one of the loop
\* (309-321); the method returns the items when the page has no
\* LastEvaluatedKey (323-324)
RetrScan ==
    /\ rpc \in {"start", "loop"}
    /\ \E n \in RetrPageSizes(rpos) : \E more \in RetrMoreChoices(rpos, n) :
        /\ rpos' = rpos + n
        /\ rlek' = more
        /\ ritems' = ritems \o RetrPage(rpos, n)
        /\ rpc' = IF more THEN "loop" ELSE "done"
        /\ rresult' = IF more THEN Running(rresult.scans + 1)
                      ELSE Returned(ritems', FALSE, rresult.scans + 1)
    /\ UNCHANGED rstore
    /\ UNCHANGED <<compileVars, execVars, tagVars, pipeVars, invVars, concVars, dbVars, uiVars>>

\* a scan raises ClientError: the except clause returns [] (326-328)
RetrClientError ==
    /\ rpc \in {"start", "loop"}
    /\ rpc' = "done"
    /\ rresult' = Returned(<<>>, TRUE, rresult.scans + 1)
    /\ UNCHANGED <<rstore, rpos, rlek, ritems>>
    /\ UNCHANGED <<compileVars, execVars, tagVars, pipeVars, invVars, concVars, dbVars, uiVars>>

\* a scan raises an error that is no ClientError: nothing catches it
RetrOtherError ==
    /\ rpc \in {"start", "loop"}
    /\ rpc' = "done"
    /\ rresult' = [kind |-> "raised", rows |-> <<>>, failed |-> TRUE,
                   scans |-> rresult.scans + 1]
    /\ UNCHANGED <<rstore, rpos, rlek, ritems>>
    /\ UNCHANGED <<compileVars, execVars, tagVars, pipeVars, invVars, concVars, dbVars, uiVars>>

RetrInit ==
    /\ CompileIdle /\ ExecIdle /\ TagIdle /\ PipeIdle /\ InvokeIdle /\ ConcIdle /\ DbIdle
    /\ UiIdle
    /\ rstore \in RStores
    /\ rpc = "start" /\ rpos = 0 /\ rlek = FALSE /\ ritems = <<>>
    /\ rresult = Running(0)

RetrNext == RetrScan \/ RetrClientError \/ RetrOtherError

RetrSpec == RetrInit /\ [][RetrNext]_vars

(***************************************************************************)
(* Claims about retrieve_untagged_records (specification RetrSpec).        *)
(***************************************************************************)
\* a record that needs tagging: Data present and not empty, Tag absent,
\* null, empty or 'Untagged'
NeedsTagging(row) ==
    /\ row.Data \notin {Absent, S("")}
    /\ row.Tag \in {Absent, NullV, S(""), S("Untagged")}

\* C27: when no scan fails, retrieve_untagged_records returns, after the
\* scan that carried no continuation key, exactly the stored records that
\* need tagging; no record tagged 'Current', 'Potential New Trend' or
\* 'Processing Error' is among them.
C27_ReturnsExactlyUntagged ==
    (rpc = "done" /\ ~rresult.failed) =>
        /\ rresult.kind = "list"
        /\ ~rlek /\ rpos = Len(rstore)
        /\ rresult.rows = SelectSeq(rstore, NeedsTagging)
        /\ \A i \in 1..Len(rresult.rows) :
            rresult.rows[i].Tag \notin
                {S("Current"), S("Potential New Trend"), S("Processing Error")}

C27_Witness ==
    /\ rpc = "done" /\ ~rresult.failed /\ rresult.scans >= 2
    /\ rstore = <<[Data |-> S("text"), Tag |-> S("Processing Error")],
                  [Data |-> S("text"), Tag |-> S("")]>>
    /\ rresult.rows = <<[Data |-> S("text"), Tag |-> S("")]>>


(***************************************************************************)
(* InsuranceQueryApp.run (app.py 567-626) with render_sidebar (519-549),   *)
(* display_results (352-494) and render_article_card (249-303).  The       *)
(* script runs once per widget event: an action is one run, from the       *)
(* handler of the widget that triggered it to the end of display_results.  *)
(* A result list is reduced to the number of its rows of each kind, a kind *)
(* being a Tag and a Source.                                               *)
(***************************************************************************)
\* 'current_page' not in st.session_state
Unset == 0

ItemsPerPageOptions == {10, 20, 50, 100}
ItemsPerPageDefault == 20

RowKinds == {<<"Current", "s1">>, <<"Untagged", "s1">>}
RowCounts == [RowKinds -> {0, MaxKindRows}]

\* the value of query_results and of execute_dynamodb_query: None or a list
NoRows == [k \in RowKinds |-> 0]
NoneResults == [some |-> FALSE, rows |-> NoRows]
ListResults(rows) == [some |-> TRUE, rows |-> rows]
ExecOutcomes == {NoneResults} \cup {ListResults(rows) : rows \in RowCounts}

\* the example of the sidebar and the texts a user types
Examples == {<<"show", WS, "all", WS, "articles">>}
QueryInputs == {<<>>, <<WS>>, <<"x", WS>>}
CompiledQueries ==
    {GetDefaultQuery, QueryDescription("scan", NullV, NullV, NumV(SchemaDefaultLimit))}

\* str.strip()
RECURSIVE StripLeft(_)
StripLeft(text) ==
    IF text # <<>> /\ Head(text) = WS THEN StripLeft(Tail(text)) ELSE text
RECURSIVE StripRight(_)
StripRight(text) ==
    IF text # <<>> /\ text[Len(text)] = WS
    THEN StripRight(SubSeq(text, 1, Len(text) - 1)) ELSE text
Strip(text) == StripRight(StripLeft(text))

\* len(df)
RECURSIVE Total(_)
Total(rows) ==
    IF DOMAIN rows = {} THEN 0
    ELSE LET k == CHOOSE x \in DOMAIN rows : TRUE
         IN  rows[k] + Total([j \in DOMAIN rows \ {k} |-> rows[j]])

\* df[df['Tag'].isin(tag_filter)] when tag_filter is not empty (413-414)
\* and the same for Source (423-424)
ApplyTag(rows, sel) ==
    IF sel = {} THEN rows ELSE [k \in RowKinds |-> IF k[1] \in sel THEN rows[k] ELSE 0]
ApplySource(rows, sel) ==
    IF sel = {} THEN rows ELSE [k \in RowKinds |-> IF k[2] \in sel THEN rows[k] ELSE 0]
Filtered(rows, tags, sources) == ApplySource(ApplyTag(rows, tags), sources)

\* the options of the two multiselects (410, 420)
TagOptions(rows) == {k[1] : k \in {j \in RowKinds : rows[j] > 0}}
SourceOptions(rows, tags) == {k[2] : k \in {j \in RowKinds : ApplyTag(rows, tags)[j] > 0}}

\* total_pages (452-453)
TotalPages(total, perPage) == (total + perPage - 1) \div perPage

\* run displays results: query_results is not None (624) and not empty (354)
Displays(results) == results.some /\ Total(results.rows) > 0

\* the page count and the index range of the cards of the current state
total_pages == TotalPages(Total(Filtered(query_results.rows, tag_filter, source_filter)),
                          items_per_page)
start_idx == (current_page - 1) * items_per_page
end_idx ==
    Min(start_idx + items_per_page,
        Total(Filtered(query_results.rows, tag_filter, source_filter)))

\* a multiselect keeps its selection while its options are the same; with
\* other options it is a new widget with an empty selection
KeepSelection(sel, oldOptions, newOptions) == IF oldOptions = newOptions THEN sel ELSE {}

\* The end of a run.  With rows to display, display_results renders the
\* widgets and sets current_page if it is not set (455-456); without, it
\* renders no widget and the widgets start from their defaults when
\* rendered again.
Render(results, page, tags, perPage) ==
    IF Displays(results)
    THEN LET sources == KeepSelection(source_filter,
                                      SourceOptions(query_results.rows, tag_filter),
                                      SourceOptions(results.rows, tags))
         IN  /\ current_page' = IF page = Unset THEN 1 ELSE page
             /\ tag_filter' = tags
             /\ source_filter' = sources
             /\ items_per_page' = perPage
    ELSE /\ current_page' = page
         /\ tag_filter' = {}
         /\ source_filter' = {}
         /\ items_per_page' = ItemsPerPageDefault

\* a run that changes current_page only (a pagination button, then rerun)
Paginate(widget, page) ==
    /\ Displays(query_results) /\ total_pages > 1
    /\ uiEvent' = [widget |-> widget, text |-> <<>>]
    /\ uiCalls' = <<>>
    /\ Render(query_results, page, tag_filter, items_per_page)
    /\ UNCHANGED <<query_results, query_history, last_query, expanded_articles>>
    /\ UNCHANGED <<compileVars, execVars, tagVars, pipeVars, invVars, concVars, dbVars, retrVars>>

\* the test of line 598
SearchGuardNoStrip(text) == text # <<>>

SearchGuard(text) == Strip(text) # <<>>

\* the test of line 614
ResultsStoredAlways(results) == TRUE

ResultsStored(results) == results.some

\* one call of the run: the function, its argument and what it returned
Call(fn, arg, ret) == [fn |-> fn, arg |-> arg, ret |-> ret]

\* Search pressed with text in the text area (598-622): the compiler
\* returns query_params, the execution returns out
UiSearch ==
    \E text \in QueryInputs, query_params \in CompiledQueries, out \in ExecOutcomes :
        /\ uiEvent' = [widget |-> "search", text |-> text]
        /\ IF SearchGuard(text)
           THEN /\ uiCalls' = <<Call("generate_query", text, query_params),
                                Call("execute_dynamodb_query", query_params, out)>>
                /\ IF ResultsStored(out)
                   THEN /\ query_results' = out
                        /\ expanded_articles' = {}
                        /\ query_history' =
                              IF \E i \in 1..Len(query_history) : query_history[i] = text
                              THEN query_history ELSE Append(query_history, text)
                        /\ Render(out, 1,
                                  KeepSelection(tag_filter, TagOptions(query_results.rows),
                                                TagOptions(out.rows)),
                                  items_per_page)
                   ELSE /\ UNCHANGED <<query_results, expanded_articles, query_history>>
                        /\ Render(query_results, current_page, tag_filter, items_per_page)
           ELSE /\ query_params = GetDefaultQuery /\ out = NoneResults
                /\ uiCalls' = <<>>
                /\ UNCHANGED <<query_results, expanded_articles, query_history>>
                /\ Render(query_results, current_page, tag_filter, items_per_page)
        /\ UNCHANGED last_query
        /\ UNCHANGED <<compileVars, execVars, tagVars, pipeVars, invVars, concVars, dbVars, retrVars>>

\* Clear pressed (591-596)
UiClear ==
    /\ uiEvent' = [widget |-> "clear", text |-> <<>>]
    /\ uiCalls' = <<>>
    /\ last_query' = <<>>
    /\ query_results' = NoneResults
    /\ expanded_articles' = {}
    /\ Render(NoneResults, 1, {}, ItemsPerPageDefault)
    /\ UNCHANGED query_history
    /\ UNCHANGED <<compileVars, execVars, tagVars, pipeVars, invVars, concVars, dbVars, retrVars>>

\* a sidebar button pressed: Show All Articles or an example (525-528,
\* 545-549)
UiSidebarQuery ==
    \E example \in Examples :
        /\ uiEvent' = [widget |-> "sidebar", text |-> example]
        /\ uiCalls' = <<>>
        /\ last_query' = example
        /\ Render(query_results, 1, tag_filter, items_per_page)
        /\ UNCHANGED <<query_results, query_history, expanded_articles>>
        /\ UNCHANGED <<compileVars, execVars, tagVars, pipeVars, invVars, concVars, dbVars, retrVars>>

\* the pagination buttons (469-494); Next is capped at MaxPageNo
UiFirstPage == current_page # 1 /\ Paginate("first", 1)
UiPreviousPage == current_page # 1 /\ Paginate("previous", current_page - 1)
UiNextPage ==
    /\ current_page # total_pages /\ current_page < MaxPageNo
    /\ Paginate("next", current_page + 1)
UiLastPage == current_page # total_pages /\ Paginate("last", total_pages)

\* a change of the Filter by Tag selection (408-414)
UiTagFilter ==
    /\ Displays(query_results)
    /\ \E sel \in SUBSET TagOptions(query_results.rows) :
        /\ sel # tag_filter
        /\ uiEvent' = [widget |-> "tag_filter", text |-> <<>>]
        /\ uiCalls' = <<>>
        /\ Render(query_results, current_page, sel, items_per_page)
    /\ UNCHANGED <<query_results, query_history, last_query, expanded_articles>>
    /\ UNCHANGED <<compileVars, execVars, tagVars, pipeVars, invVars, concVars, dbVars, retrVars>>

\* a change of the Filter by Source selection (418-424)
UiSourceFilter ==
    /\ Displays(query_results)
    /\ \E sel \in SUBSET SourceOptions(query_results.rows, tag_filter) :
        /\ sel # source_filter
        /\ uiEvent' = [widget |-> "source_filter", text |-> <<>>]
        /\ uiCalls' = <<>>
        /\ source_filter' = sel
    /\ UNCHANGED <<current_page, tag_filter, items_per_page>>
    /\ UNCHANGED <<query_results, query_history, last_query, expanded_articles>>
    /\ UNCHANGED <<compileVars, execVars, tagVars, pipeVars, invVars, concVars, dbVars, retrVars>>

\* a change of Items per page (434-439)
UiItemsPerPage ==
    /\ Displays(query_results)
    /\ \E perPage \in ItemsPerPageOptions :
        /\ perPage # items_per_page
        /\ uiEvent' = [widget |-> "items_per_page", text |-> <<>>]
        /\ uiCalls' = <<>>
        /\ Render(query_results, current_page, tag_filter, perPage)
    /\ UNCHANGED <<query_results, query_history, last_query, expanded_articles>>
    /\ UNCHANGED <<compileVars, execVars, tagVars, pipeVars, invVars, concVars, dbVars, retrVars>>

\* the button of the first card of the page pressed (298-303); at most
\* MaxExpanded cards are expanded
UiExpand ==
    /\ Displays(query_results) /\ start_idx < end_idx
    /\ \E idx \in {start_idx} :
        /\ expanded_articles' =
              IF idx \in expanded_articles THEN expanded_articles \ {idx}
              ELSE expanded_articles \cup {idx}
        /\ Cardinality(expanded_articles') <= MaxExpanded
    /\ uiEvent' = [widget |-> "expand", text |-> <<>>]
    /\ uiCalls' = <<>>
    /\ Render(query_results, current_page, tag_filter, items_per_page)
    /\ UNCHANGED <<query_results, query_history, last_query>>
    /\ UNCHANGED <<compileVars, execVars, tagVars, pipeVars, invVars, concVars, dbVars, retrVars>>

\* initialize_session_state (178-187) and the first run
UiInit ==
    /\ CompileIdle /\ ExecIdle /\ TagIdle /\ PipeIdle /\ InvokeIdle /\ ConcIdle /\ DbIdle
    /\ RetrIdle
    /\ query_results = NoneResults
    /\ query_history = <<>>
    /\ last_query = <<>>
    /\ expanded_articles = {}
    /\ current_page = Unset
    /\ tag_filter = {} /\ source_filter = {} /\ items_per_page = ItemsPerPageDefault
    /\ uiCalls = <<>>
    /\ uiEvent = [widget |-> "", text |-> <<>>]

UiNext ==
    \/ UiSearch \/ UiClear \/ UiSidebarQuery
    \/ UiFirstPage \/ UiPreviousPage \/ UiNextPage \/ UiLastPage
    \/ UiTagFilter \/ UiSourceFilter \/ UiItemsPerPage \/ UiExpand

UiSpec == UiInit /\ [][UiNext]_vars


(***************************************************************************)
(* Claims about the dashboard (specification UiSpec).                      *)
(***************************************************************************)
\* C28: a run in which execute_dynamodb_query returned None leaves
\* query_results, current_page, expanded_articles and query_history as
\* they were, so what was displayed stays displayed.
C28_FailedExecutionKeepsSession ==
    [][ (Len(uiCalls') = 2 /\ ~uiCalls'[2].ret.some) =>
            /\ query_results' = query_results
            /\ current_page' = current_page
            /\ expanded_articles' = expanded_articles
            /\ query_history' = query_history ]_vars

C28_Witness ==
    /\ Len(uiCalls) = 2 /\ ~uiCalls[2].ret.some
    /\ Displays(query_results)
    /\ current_page = 2
    /\ expanded_articles # {}
    /\ query_history # <<>>

\* a text with a character that is not whitespace
NonBlank(text) == \E i \in 1..Len(text) : text[i] # WS

\* C29: a run calls the compiler and the store only when Search was
\* pressed with a text that is not blank; it then calls generate_query once
\* with the text and execute_dynamodb_query once with the object
\* generate_query returned; every other run calls neither.
C29_CompilerAndStoreOnlyOnNonBlankSearch ==
    IF uiEvent.widget = "search" /\ NonBlank(uiEvent.text)
    THEN /\ Len(uiCalls) = 2
         /\ uiCalls[1].fn = "generate_query" /\ uiCalls[1].arg = uiEvent.text
         /\ uiCalls[2].fn = "execute_dynamodb_query" /\ uiCalls[2].arg = uiCalls[1].ret
    ELSE uiCalls = <<>>

C29_Witness ==
    /\ uiEvent = [widget |-> "search", text |-> <<"x", WS>>]
    /\ Len(uiCalls) = 2
    /\ uiCalls[2].arg = QueryDescription("scan", NullV, NullV, NumV(SchemaDefaultLimit))
    /\ query_history = <<<<"x", WS>>>>

\* C30: whenever results are displayed, current_page is at least 1 and at
\* most max(1, total_pages), total_pages being computed from the filtered
\* rows and the selected items per page.
C30_CurrentPageWithinPages ==
    Displays(query_results) =>
        /\ 1 <= current_page
        /\ current_page <= (IF total_pages > 1 THEN total_pages ELSE 1)

====
